---- MODULE Spec2Model ----
(***************************************************************************)
(* Member resolution and request cache of arin-irr-syncer                  *)
(* (helper/SimpleASSet: cacheKey, queryBgpq4ExpandedASNs,                  *)
(* queryBgpq4ExpandedASNsCached, flattenMemberWithBgpq4, resolveMembers).  *)
(*                                                                         *)
(* Strings are sequences of one-character strings.  An optional value is   *)
(* a sequence of length at most one: <<>> is undefined, <<v>> is v.        *)
(* A promise returned by queryBgpq4ExpandedASNsCached is one entry of      *)
(* `promises`; it stands for one invocation of queryBgpq4ExpandedASNs.     *)
(*                                                                         *)
(* The registry client (core/irm: class ARINIRM) is modelled by `task`,    *)
(* `apiKey` and `asSetCalls`.                                              *)
(***************************************************************************)
EXTENDS Integers, Sequences, FiniteSets

\* cache     FLATTEN_CACHE: cache key -> index in `promises`
\* promises  the promises queryBgpq4ExpandedASNsCached has created, in order:
\*           `inner` is the state of queryBgpq4ExpandedASNs(...), `state` the
\*           state of the promise derived from it by .catch, which is the
\*           one cached and awaited
\* calls     the calls of flattenMemberWithBgpq4: arguments, position (pc),
\*           the promise awaited, the queries issued so far, and the outcome
\* resolves  the calls of resolveMembers: arguments, position in the list,
\*           the members collected so far, the finished flatten calls, and
\*           the outcome; the flatten call a resolve is awaiting is the entry
\*           of `calls` with the same index
\* input     the argument of the function applied on its own
\*           (parseMemberSpecs, or the argument list built by
\*           queryBgpq4ExpandedASNs), None when none is
\* output    what the function returned, None before it is applied
\* task      ARINIRM.task of the one client instance: None for null
\* apiKey    ARINIRM.apiKey
\* asSetCalls the calls of ARINIRM.as_set: arguments, position (pc), the
\*           HTTP request sent, what executeTask ended in, and the outcome
VARIABLES cache, promises, calls, resolves, input, output,
          task, apiKey, asSetCalls

vars == <<cache, promises, calls, resolves, input, output,
          task, apiKey, asSetCalls>>
functionVars == <<input, output>>
clientVars == <<task, apiKey, asSetCalls>>

\* ------------------------------------------------------------------ bounds
MaxCalls == 2
MaxClientCalls == 2

\* ------------------------------------------------------- optional values
None == <<>>
Some(v) == <<v>>
IsSome(o) == Len(o) = 1
Val(o) == o[1]

\* ---------------------------------------------------------------- strings
Digits == <<"0", "1", "2", "3", "4", "5", "6", "7", "8", "9">>
\* The code points String.prototype.trim removes: WhiteSpace (TAB, VT, FF, SP,
\* NBSP, ZWNBSP and the space separators) and LineTerminator (LF, CR, LS, PS).
\* A code point from U+2000 on cannot be written in a string of this
\* language and is written by its name.
Whitespace ==
  { "\t", "\n", "", "\f", "\r", " ", " ", " ", "﻿" }
  \cup { "U+2000", "U+2001", "U+2002", "U+2003", "U+2004", "U+2005", "U+2006",
         "U+2007", "U+2008", "U+2009", "U+200A", "U+2028", "U+2029", "U+202F",
         "U+205F", "U+3000" }

RECURSIVE NatToString(_)
NatToString(n) ==
  IF n < 10 THEN <<Digits[n + 1]>>
  ELSE NatToString(n \div 10) \o <<Digits[(n % 10) + 1]>>

\* String(n) for an integer n
NumberToString(n) == IF n < 0 THEN <<"-">> \o NatToString(-n) ELSE NatToString(n)

RECURSIVE TrimStart(_)
TrimStart(s) ==
  IF s # <<>> /\ Head(s) \in Whitespace THEN TrimStart(Tail(s)) ELSE s

RECURSIVE TrimEnd(_)
TrimEnd(s) ==
  IF s # <<>> /\ s[Len(s)] \in Whitespace
  THEN TrimEnd(SubSeq(s, 1, Len(s) - 1)) ELSE s

\* String.prototype.trim
Trim(s) == TrimEnd(TrimStart(s))

\* --------------------------------------------------------------- Map<K,V>
EmptyMap == [k \in {} |-> 0]
MapHas(m, k) == k \in DOMAIN m
MapSet(m, k, v) == [x \in (DOMAIN m) \cup {k} |-> IF x = k THEN v ELSE m[x]]
MapDelete(m, k) == [x \in (DOMAIN m) \ {k} |-> m[x]]

\* ------------------------------------------------------------- cache key
\* `${spec.name}|${depthPart}|${sourcesPart}`
cacheKey(spec, sourcesArg) ==
  LET depthPart == IF IsSome(spec.depth) THEN NumberToString(Val(spec.depth)) ELSE <<>>
      sourcesPart == IF IsSome(sourcesArg) THEN Trim(Val(sourcesArg)) ELSE <<>>
  IN spec.name \o <<"|">> \o depthPart \o <<"|">> \o sourcesPart

\* --------------------------------------------------------------- inputs
NameA == <<"A">>
NameAPipe1 == <<"A", "|", "1">>
SrcEmpty == <<>>
SrcBlank == <<"\t", " ">>
SrcPipe == <<"|">>

\* MemberSpec
MemberSpec(name, flat, depth) ==
  [name |-> name, flat |-> flat, depth |-> depth, sources |-> None]

\* One call flatten(spec, options, sources); timeoutMs only bounds the
\* external process and is left out of FlattenOptions.
Request(spec, onEmpty, sources) ==
  [spec |-> spec, options |-> [onEmpty |-> onEmpty], sources |-> sources]

\* The calls made by the callers:
\*  - the spec A with flat absent or false, without and with options and
\*    sources;
\*  - the flat spec A at depth 1: with the sources override "|" under an
\*    "empty" and an "error" policy; without sources and without a policy;
\*    with an empty sources string under "error" and with a blank one under
\*    "keep";
\*  - the flat spec "A|1" without depth and sources.
Requests ==
  { Request(MemberSpec(NameA, None, None), None, None),
    Request(MemberSpec(NameA, Some(FALSE), None), Some("error"), Some(SrcPipe)) }
  \cup { Request(MemberSpec(NameA, Some(TRUE), Some(1)), e, Some(SrcPipe)) :
           e \in {Some("empty"), Some("error")} }
  \cup { Request(MemberSpec(NameA, Some(TRUE), Some(1)), None, None),
         Request(MemberSpec(NameA, Some(TRUE), Some(1)), Some("error"),
                 Some(SrcEmpty)),
         Request(MemberSpec(NameA, Some(TRUE), Some(1)), Some("keep"),
                 Some(SrcBlank)),
         Request(MemberSpec(NameAPipe1, Some(TRUE), None), None, None) }

\* What one invocation of the external tool can end in.  execFile reports an
\* error: after the tool has written to stderr ("execfile"); without
\* anything on stderr, for a non-zero exit or for the process killed at the
\* timeout ("command"); or without anything on stderr, because the process
\* could not be spawned (ENOENT) or its output exceeded maxBuffer ("spawn").
\* Or the output is not a JSON object ("malformed"); or the output is an
\* object whose bucket is a list of items, an item being Some(number), or
\* None for a value that is not a number.
Buckets == { <<>>, <<None>>, <<Some(2), None, Some(1), Some(2)>> }
ToolFailures == { "execfile", "command", "spawn", "malformed" }
\* the failures the specifications draw: one whose message quotes the command
\* and one whose message does not
Failures == { "command", "malformed" }

\* ---------------------------------------------------------------- errors
NoError == [kind |-> "none", member |-> None]
\* execFileAsync: `bgpq4 failed (exit ...): ${stderr || err.message}`; the
\* JSON.parse and isRecord errors.  For a non-zero exit and for a kill,
\* err.message is execFile's `Command failed: bgpq4 ...`, which quotes the
\* arguments and so ends with spec.name.  The text of stderr, the
\* err.message of a spawn error (`spawn bgpq4 ENOENT`) or of the maxBuffer
\* error (`stdout maxBuffer length exceeded`), and the other messages do not
\* name the member.
ToolError(kind, spec) ==
  [kind |-> kind,
   member |-> IF kind = "command" THEN Some(spec.name) ELSE None]
\* `bgpq4 returned empty expansion for ${spec.name}`
EmptyExpansionError(spec) == [kind |-> "empty", member |-> Some(spec.name)]

\* --------------------------------------------------------------- adapter
\* bucket.map(number -> String, else "").map(trim).filter(nonempty).map(AS..)
RECURSIVE ExpandedASNs(_)
ExpandedASNs(bucket) ==
  IF bucket = <<>> THEN <<>>
  ELSE LET s == IF IsSome(Head(bucket))
                THEN Trim(NumberToString(Val(Head(bucket)))) ELSE <<>>
       IN (IF Len(s) > 0 THEN << <<"A", "S">> \o s >> ELSE <<>>)
          \o ExpandedASNs(Tail(bucket))

\* ------------------------------------------------------- JS truthiness
\* mutant: only an explicit false is taken as not flat
FlatIsTrue_UnlessFalse(spec) == ~(IsSome(spec.flat) /\ ~Val(spec.flat))

\* `!spec.flat`: undefined and false are falsy
FlatIsTrue(spec) == IsSome(spec.flat) /\ Val(spec.flat)
\* mutant: the test is `sources !== undefined`
Truthy_Defined(str) == IsSome(str)

\* `sources ? ... : ...`: undefined and "" are falsy
Truthy(str) == IsSome(str) /\ Len(Val(str)) > 0

\* ------------------------------------------------------------------ state
NewPromise(key, spec, sourcesArg) ==
  [key |-> key, spec |-> spec, sourcesArg |-> sourcesArg,
   inner |-> "running", state |-> "pending",
   value |-> <<>>, error |-> NoError]

IdleCall ==
  [pc |-> "idle", spec |-> [name |-> <<>>, flat |-> None, depth |-> None,
                           sources |-> None],
   options |-> [onEmpty |-> None], sources |-> None,
   awaiting |-> 0, queries |-> <<>>, result |-> <<>>, error |-> NoError]

\* a call of resolveMembers not made yet.  When ASSetFromYamlAndFlatten is
\* the caller, `document` is its parsed document, `yaml` its own position
\* and `members` the members of the ASSet it has returned.
IdleResolve ==
  [pc |-> "idle", specs |-> <<>>, options |-> [onEmpty |-> None],
   sources |-> None, index |-> 0, out |-> <<>>, flattened |-> <<>>,
   result |-> <<>>, error |-> NoError, document |-> None,
   yaml |-> "none", members |-> <<>>]

CallIds == 1 .. MaxCalls

\* a call of ARINIRM.as_set not made yet
IdleAsSetCall ==
  [pc |-> "idle", options |-> [ASSetName |-> None, OrgHandle |-> None,
                               ASSetContent |-> None],
   selected |-> "", action |-> "", request |-> None, executed |-> None,
   answer |-> <<>>, error |-> ""]

ClientCallIds == 1 .. MaxClientCalls

\* new ARINIRM("K"), no method called yet
ClientConstructed ==
  /\ task = None
  /\ apiKey = <<"K">>
  /\ asSetCalls = [c \in ClientCallIds |-> IdleAsSetCall]

Init ==
  /\ cache = EmptyMap
  /\ promises = <<>>
  /\ calls = [c \in CallIds |-> IdleCall]
  /\ resolves = [r \in CallIds |-> IdleResolve]
  /\ input = None
  /\ output = None
  /\ ClientConstructed

\* ------------------------------------- queryBgpq4ExpandedASNsCached
\* The lookup, the start of queryBgpq4ExpandedASNs and FLATTEN_CACHE.set run
\* without suspension.  CachedPromise is the promise handed to the caller.
CachedPromise(key) ==
  IF MapHas(cache, key) THEN cache[key] ELSE Len(promises) + 1

PromisesAfterQuery(spec, sourcesArg) ==
  LET key == cacheKey(spec, sourcesArg)
  IN IF MapHas(cache, key) THEN promises
     ELSE Append(promises, NewPromise(key, spec, sourcesArg))

\* mutant: FLATTEN_CACHE.set is forgotten
CacheAfterQuery_NoInsert(spec, sourcesArg) == cache

CacheAfterQuery(spec, sourcesArg) ==
  LET key == cacheKey(spec, sourcesArg)
  IN IF MapHas(cache, key) THEN cache
     ELSE MapSet(cache, key, Len(promises) + 1)

\* What a call notes of one query: the promise it was handed, the sources
\* argument, and what FLATTEN_CACHE.get found ("miss", or the state of the
\* cached promise).
QueryRecord(spec, sourcesArg) ==
  LET key == cacheKey(spec, sourcesArg)
  IN [promise |-> CachedPromise(key), sourcesArg |-> sourcesArg,
      found |-> IF MapHas(cache, key) THEN promises[cache[key]].state
                ELSE "miss"]

\* ------------------------------------------------ flattenMemberWithBgpq4
\* mutant: the default policy is "empty"
OnEmptyOutcome_DefaultEmpty(call) ==
  LET policy == IF IsSome(call.options.onEmpty)
                THEN Val(call.options.onEmpty) ELSE "empty"
  IN CASE policy = "empty" -> [call EXCEPT !.pc = "returned", !.result = <<>>]
       [] policy = "error" ->
            [call EXCEPT !.pc = "threw", !.error = EmptyExpansionError(call.spec)]
       [] OTHER -> [call EXCEPT !.pc = "returned", !.result = <<call.spec.name>>]

\* switch (options.onEmpty ?? "keep")
OnEmptyOutcome(call) ==
  LET policy == IF IsSome(call.options.onEmpty)
                THEN Val(call.options.onEmpty) ELSE "keep"
  IN CASE policy = "empty" -> [call EXCEPT !.pc = "returned", !.result = <<>>]
       [] policy = "error" ->
            [call EXCEPT !.pc = "threw", !.error = EmptyExpansionError(call.spec)]
       [] OTHER -> [call EXCEPT !.pc = "returned", !.result = <<call.spec.name>>]

\* `.length > 0`
NonEmpty(list) == Len(list) > 0

\* Array.from(new Set(list))
RECURSIVE Deduplicated(_)
Deduplicated(list) ==
  IF list = <<>> THEN <<>>
  ELSE LET init == Deduplicated(SubSeq(list, 1, Len(list) - 1))
           last == list[Len(list)]
       IN IF \E i \in 1 .. Len(init) : init[i] = last THEN init
          ELSE Append(init, last)

\* mutant: the expansion is deduplicated before it is returned
ReturnValue_Deduplicated(call, asns) ==
  [call EXCEPT !.pc = "returned", !.result = Deduplicated(asns)]

\* `return asnsWithSources` / `return asnsFallback`
ReturnValue(call, asns) == [call EXCEPT !.pc = "returned", !.result = asns]

\* mutant: a failed query is taken as an empty expansion
Rethrow_AsEmpty(call, p) == OnEmptyOutcome(call)

\* a rejected await: the async function throws what the promise carries
Rethrow(call, p) == [call EXCEPT !.pc = "threw", !.error = p.error]

\* flattenMemberWithBgpq4(spec, options, sources) up to its first await, as
\* the call c
FlattenCall(c, spec, options, sources) ==
  LET call == [IdleCall EXCEPT !.spec = spec, !.options = options,
                               !.sources = sources]
  IN IF ~FlatIsTrue(spec)
     THEN /\ calls' = [calls EXCEPT ![c] =
                         [call EXCEPT !.pc = "returned",
                                      !.result = <<spec.name>>]]
          /\ UNCHANGED <<cache, promises>>
     ELSE /\ calls' = [calls EXCEPT ![c] =
                         [call EXCEPT !.pc = "awaitPrimary",
                            !.awaiting = CachedPromise(cacheKey(spec, sources)),
                            !.queries = <<QueryRecord(spec, sources)>>]]
          /\ promises' = PromisesAfterQuery(spec, sources)
          /\ cache' = CacheAfterQuery(spec, sources)

\* A caller calls flatten.  Callers are numbered in the order of their calls.
StartFlatten(c, spec, options, sources) ==
  /\ calls[c].pc = "idle"
  /\ \A d \in CallIds : d < c => calls[d].pc # "idle"
  /\ FlattenCall(c, spec, options, sources)

\* flatten resumed after `await queryBgpq4ExpandedASNsCached(spec, t, sources)`
ResumePrimary(c) ==
  LET call == calls[c]
      p == promises[call.awaiting]
  IN /\ call.pc = "awaitPrimary"
     /\ p.state # "pending"
     /\ IF p.state = "rejected"
        THEN /\ calls' = [calls EXCEPT ![c] = Rethrow(call, p)]
             /\ UNCHANGED <<cache, promises>>
        ELSE IF NonEmpty(p.value)
        THEN /\ calls' = [calls EXCEPT ![c] = ReturnValue(call, p.value)]
             /\ UNCHANGED <<cache, promises>>
        ELSE IF Truthy(call.sources)
        THEN /\ calls' = [calls EXCEPT ![c] =
                            [call EXCEPT !.pc = "awaitFallback",
                               !.awaiting = CachedPromise(cacheKey(call.spec, None)),
                               !.queries = Append(call.queries,
                                                  QueryRecord(call.spec, None))]]
             /\ promises' = PromisesAfterQuery(call.spec, None)
             /\ cache' = CacheAfterQuery(call.spec, None)
        ELSE /\ calls' = [calls EXCEPT ![c] = OnEmptyOutcome(call)]
             /\ UNCHANGED <<cache, promises>>

\* flatten resumed after `await queryBgpq4ExpandedASNsCached(spec, t, undefined)`
ResumeFallback(c) ==
  LET call == calls[c]
      p == promises[call.awaiting]
  IN /\ call.pc = "awaitFallback"
     /\ p.state # "pending"
     /\ calls' = [calls EXCEPT ![c] =
          IF p.state = "rejected"
          THEN Rethrow(call, p)
          ELSE IF NonEmpty(p.value)
          THEN ReturnValue(call, p.value)
          ELSE OnEmptyOutcome(call)]
     /\ UNCHANGED <<cache, promises>>

\* ------------------------------------------- queryBgpq4ExpandedASNs ends
\* mutant: the entry is deleted when the computation ends, also on success
\* (.finally instead of .catch)
AdapterReturn_Evicts(p, bucket) ==
  /\ promises[p].inner = "running"
  /\ promises' = [promises EXCEPT ![p].inner = "returned",
                                  ![p].value = ExpandedASNs(bucket)]
  /\ cache' = MapDelete(cache, promises[p].key)
  /\ UNCHANGED calls

\* The tool printed an object: the promise of queryBgpq4ExpandedASNs is
\* fulfilled with the list; the cached promise is the one derived by .catch
\* and is still pending.
AdapterReturn(p, bucket) ==
  /\ promises[p].inner = "running"
  /\ promises' = [promises EXCEPT ![p].inner = "returned",
                                  ![p].value = ExpandedASNs(bucket)]
  /\ UNCHANGED <<cache, calls>>

\* The promise derived by .catch takes the value of a fulfilled promise of
\* queryBgpq4ExpandedASNs, in a later job; the handler does not run.
CatchPassesValue(p) ==
  /\ promises[p].inner = "returned"
  /\ promises[p].state = "pending"
  /\ promises' = [promises EXCEPT ![p].state = "fulfilled"]
  /\ UNCHANGED <<cache, calls>>

\* mutant: the entry is deleted as soon as the computation fails, and once
\* more by the handler
AdapterThrow_Evicts(p, kind) ==
  /\ promises[p].inner = "running"
  /\ promises' = [promises EXCEPT ![p].inner = "threw",
                                  ![p].error = ToolError(kind, promises[p].spec)]
  /\ cache' = MapDelete(cache, promises[p].key)
  /\ UNCHANGED calls

\* execFileAsync rejected, or the output was not a JSON object: the promise
\* of queryBgpq4ExpandedASNs is rejected; the cached promise is the one
\* derived by .catch and is still pending.
AdapterThrow(p, kind) ==
  /\ promises[p].inner = "running"
  /\ promises' = [promises EXCEPT ![p].inner = "threw",
                                  ![p].error = ToolError(kind, promises[p].spec)]
  /\ UNCHANGED <<cache, calls>>

\* mutant: the handler rethrows without deleting the entry
CatchHandler_NoDelete(p) ==
  /\ promises[p].inner = "threw"
  /\ promises[p].state = "pending"
  /\ promises' = [promises EXCEPT ![p].state = "rejected"]
  /\ UNCHANGED <<cache, calls>>

\* mutant: the handler deletes the entry and swallows the error
CatchHandler_Swallow(p) ==
  /\ promises[p].inner = "threw"
  /\ promises[p].state = "pending"
  /\ cache' = MapDelete(cache, promises[p].key)
  /\ promises' = [promises EXCEPT ![p].state = "fulfilled"]
  /\ UNCHANGED calls

\* mutant: the handler deletes the entry and returns a promise that never
\* settles
CatchHandler_NeverSettles(p) ==
  /\ promises[p].inner = "threw"
  /\ promises[p].state = "pending"
  /\ cache' = MapDelete(cache, promises[p].key)
  /\ UNCHANGED <<promises, calls>>

\* .catch((err) => { FLATTEN_CACHE.delete(key); throw err; })
CatchHandler(p) ==
  /\ promises[p].inner = "threw"
  /\ promises[p].state = "pending"
  /\ cache' = MapDelete(cache, promises[p].key)
  /\ promises' = [promises EXCEPT ![p].state = "rejected"]
  /\ UNCHANGED calls

PromiseIds == 1 .. Len(promises)

\* Callers of flattenMemberWithBgpq4 alone: no resolveMembers call is made.
Next ==
  \/ /\ \E c \in CallIds, r \in Requests :
          StartFlatten(c, r.spec, r.options, r.sources)
     /\ UNCHANGED <<resolves, functionVars, clientVars>>
  \/ /\ \E c \in CallIds : ResumePrimary(c)
     /\ UNCHANGED <<resolves, functionVars, clientVars>>
  \/ /\ \E c \in CallIds : ResumeFallback(c)
     /\ UNCHANGED <<resolves, functionVars, clientVars>>
  \/ /\ \E p \in PromiseIds, bucket \in Buckets : AdapterReturn(p, bucket)
     /\ UNCHANGED <<resolves, functionVars, clientVars>>
  \/ /\ \E p \in PromiseIds : CatchPassesValue(p)
     /\ UNCHANGED <<resolves, functionVars, clientVars>>
  \/ /\ \E p \in PromiseIds, kind \in Failures : AdapterThrow(p, kind)
     /\ UNCHANGED <<resolves, functionVars, clientVars>>
  \/ /\ \E p \in PromiseIds : CatchHandler(p)
     /\ UNCHANGED <<resolves, functionVars, clientVars>>

Spec == Init /\ [][Next]_vars


\* ------------------------------------------------- notions of the claims
\* the queries a call has issued, as pairs <<call, index>>
Queries == { <<c, i>> \in CallIds \X (1 .. 2) : i <= Len(calls[c].queries) }
QueryOf(ci) == calls[ci[1]].queries[ci[2]]
PromiseOf(ci) == promises[QueryOf(ci).promise]
\* the call has gone on after the await of its i-th query
Past(ci) ==
  \/ ci[2] < Len(calls[ci[1]].queries)
  \/ calls[ci[1]].pc \in {"returned", "threw"}
Finished(c) == calls[c].pc \in {"returned", "threw"}
InFlight(p) == promises[p].inner = "running"

\* C1: at every moment at most one adapter invocation is in flight per cache
\* key; the invocation in flight is the entry of its key, so that a request
\* made meanwhile joins it; and there are exactly as many invocations as
\* cache misses, never one for a request that found a pending entry.
C1_OneInvocationInFlightPerKey ==
  /\ \A p, q \in PromiseIds :
       (p # q /\ promises[p].key = promises[q].key)
         => ~(InFlight(p) /\ InFlight(q))
  /\ \A p \in PromiseIds :
       InFlight(p) => (MapHas(cache, promises[p].key)
                        /\ cache[promises[p].key] = p)
  /\ Len(promises) = Cardinality({ ci \in Queries : QueryOf(ci).found = "miss" })

\* two calls wait for the one invocation in flight for their common key
C1_Witness ==
  \E c, d \in CallIds :
    /\ c # d
    /\ calls[c].pc = "awaitPrimary" /\ calls[d].pc = "awaitPrimary"
    /\ calls[c].awaiting = calls[d].awaiting
    /\ InFlight(calls[c].awaiting)
    /\ calls[c].queries[1].found = "miss"
    /\ calls[d].queries[1].found = "pending"
    /\ Len(promises) = 1

\* C2: a failed computation is out of the cache by the time its failure can
\* be observed: the cache never holds a rejected promise, no lookup ever
\* found one, and a call that failed with a tool failure got it from a
\* promise that is no longer cached.
C2_FailureEvictedBeforeObserved ==
  /\ \A p \in PromiseIds :
       promises[p].state = "rejected"
         => ~(MapHas(cache, promises[p].key) /\ cache[promises[p].key] = p)
  /\ \A ci \in Queries : QueryOf(ci).found # "rejected"
  /\ \A c \in CallIds :
       (calls[c].pc = "threw" /\ calls[c].error.kind \in ToolFailures)
         => \A k \in DOMAIN cache : cache[k] # calls[c].awaiting

\* a call failed with a tool failure, and a later request for the same key
\* missed the cache and started a fresh invocation
C2_Witness ==
  \E c \in CallIds, di \in Queries :
    /\ calls[c].pc = "threw"
    /\ calls[c].error.kind \in ToolFailures
    /\ QueryOf(di).found = "miss"
    /\ QueryOf(di).promise > calls[c].awaiting
    /\ PromiseOf(di).key = promises[calls[c].awaiting].key

\* C3: the promise of an invocation that has succeeded stays the cache
\* entry of its key, before and after it is fulfilled; no invocation for
\* that key is started after it; and a request that found it fulfilled is
\* answered with the stored sequence.
C3_SuccessStaysCached ==
  /\ \A p \in PromiseIds :
       (promises[p].inner = "returned" \/ promises[p].state = "fulfilled")
         => (MapHas(cache, promises[p].key) /\ cache[promises[p].key] = p)
  /\ \A p, q \in PromiseIds :
       (p < q /\ promises[p].key = promises[q].key)
         => promises[p].state = "rejected"
  /\ \A ci \in Queries :
       (QueryOf(ci).found = "fulfilled" /\ Past(ci))
         => /\ PromiseOf(ci).state = "fulfilled"
            /\ PromiseOf(ci).value # <<>>
                 => (calls[ci[1]].pc = "returned"
                      /\ calls[ci[1]].result = PromiseOf(ci).value)

\* an invocation succeeded with an empty result and a later request was
\* answered from the cache
C3_Witness ==
  \E ci \in Queries :
    /\ QueryOf(ci).found = "fulfilled"
    /\ PromiseOf(ci).value = <<>>
    /\ Finished(ci[1])
    /\ Len(promises) = 1

\* C4: every call that was handed the promise of a computation and has gone
\* on after awaiting it has received the outcome of that computation: its
\* failure, or the sequence it produced.
C4_JoinedCallersShareOutcome ==
  \A ci \in Queries :
    Past(ci) =>
      LET p == PromiseOf(ci)
          call == calls[ci[1]]
      IN /\ p.inner # "running"
         /\ p.inner = "threw" => (call.pc = "threw" /\ call.error = p.error)
         /\ (p.inner = "returned" /\ p.value # <<>>)
              => (call.pc = "returned" /\ call.result = p.value)
         /\ (p.inner = "returned" /\ p.value = <<>>)
              => (p.state = "fulfilled"
                   /\ ~(call.pc = "threw" /\ call.error.kind \in ToolFailures
                         /\ ci[2] = Len(call.queries)))

\* a call joined a pending computation of another call, the computation
\* failed, and both calls failed with its error
C4_Witness ==
  \E ci, dj \in Queries :
    /\ ci[1] # dj[1]
    /\ QueryOf(ci).promise = QueryOf(dj).promise
    /\ QueryOf(ci).found = "miss" /\ QueryOf(dj).found = "pending"
    /\ calls[ci[1]].pc = "threw" /\ calls[dj[1]].pc = "threw"
    /\ calls[ci[1]].error = PromiseOf(ci).error
    /\ calls[dj[1]].error = PromiseOf(ci).error
    /\ PromiseOf(ci).error.kind \in ToolFailures

\* the (name, depth-or-empty, trimmed-sources-or-empty) triple of a request
RequestTriple(spec, sourcesArg) ==
  <<spec.name, spec.depth,
    IF IsSome(sourcesArg) THEN Trim(Val(sourcesArg)) ELSE <<>> >>

\* C5: requests whose (name, depth, sources) triples differ have different
\* cache keys, and no request is handed the promise of an expansion with
\* another triple.
C5_KeyIdentifiesExpansion ==
  /\ \A ci, dj \in Queries :
       RequestTriple(calls[ci[1]].spec, QueryOf(ci).sourcesArg)
           # RequestTriple(calls[dj[1]].spec, QueryOf(dj).sourcesArg)
         => cacheKey(calls[ci[1]].spec, QueryOf(ci).sourcesArg)
              # cacheKey(calls[dj[1]].spec, QueryOf(dj).sourcesArg)
  /\ \A ci \in Queries :
       RequestTriple(PromiseOf(ci).spec, PromiseOf(ci).sourcesArg)
         = RequestTriple(calls[ci[1]].spec, QueryOf(ci).sourcesArg)

\* C6: a call for a spec whose flat flag is false or absent has returned
\* exactly [spec.name] without issuing a query, and its step leaves the
\* cache and the invocations as they were.
C6_NotFlatReturnsName ==
  /\ [](\A c \in CallIds :
          (calls[c].pc # "idle" /\ calls[c].spec.flat \in {None, Some(FALSE)})
            => /\ calls[c].pc = "returned"
               /\ calls[c].result = <<calls[c].spec.name>>
               /\ calls[c].queries = <<>>)
  /\ [][\A c \in CallIds :
          (calls[c].pc = "idle" /\ calls'[c].pc # "idle"
             /\ calls'[c].spec.flat \in {None, Some(FALSE)})
            => (cache' = cache /\ promises' = promises)]_vars

\* a spec with flat false, called with onEmpty "error" and a sources
\* override while an invocation is in flight, returned its name
C6_Witness ==
  \E c \in CallIds :
    /\ calls[c].spec.flat = Some(FALSE)
    /\ calls[c].options.onEmpty = Some("error")
    /\ calls[c].sources # None
    /\ calls[c].pc = "returned"
    /\ calls[c].result = <<calls[c].spec.name>>
    /\ \E p \in PromiseIds : InFlight(p)

\* C7: when the primary query of a call is fulfilled with a non-empty
\* sequence, the call issues no second query and returns that very sequence.
C7_NonEmptyPrimaryReturnedUnchanged ==
  \A c \in CallIds :
    (Len(calls[c].queries) >= 1
       /\ PromiseOf(<<c, 1>>).state = "fulfilled"
       /\ PromiseOf(<<c, 1>>).value # <<>>)
      => /\ Len(calls[c].queries) = 1
         /\ calls[c].pc \in {"awaitPrimary", "returned"}
         /\ calls[c].pc = "returned"
              => calls[c].result = PromiseOf(<<c, 1>>).value

\* a call with a sources override returned a primary result that has a
\* duplicate and is not sorted
C7_Witness ==
  \E c \in CallIds :
    /\ calls[c].pc = "returned"
    /\ Len(calls[c].queries) = 1
    /\ calls[c].sources # None /\ calls[c].sources # Some(<<>>)
    /\ calls[c].result = << <<"A", "S", "2">>, <<"A", "S", "1">>,
                            <<"A", "S", "2">> >>
    /\ PromiseOf(<<c, 1>>).value = calls[c].result

\* the retry and its result, given what counts as a supplied override
RetryRule(c, supplied) ==
  LET call == calls[c]
      n == Len(call.queries)
  IN /\ n <= 2
     /\ (n >= 1 /\ Past(<<c, 1>>) /\ supplied
           /\ PromiseOf(<<c, 1>>).state = "fulfilled"
           /\ PromiseOf(<<c, 1>>).value = <<>>)
          => n = 2
     /\ n = 2
          => /\ supplied
             /\ PromiseOf(<<c, 1>>).state = "fulfilled"
             /\ PromiseOf(<<c, 1>>).value = <<>>
             /\ call.queries[2].sourcesArg = None
             /\ PromiseOf(<<c, 2>>).key = cacheKey(call.spec, None)
     /\ (n = 2 /\ Past(<<c, 2>>)
           /\ PromiseOf(<<c, 2>>).state = "fulfilled"
           /\ PromiseOf(<<c, 2>>).value # <<>>)
          => (call.pc = "returned" /\ call.result = PromiseOf(<<c, 2>>).value)

\* C8 as stated: with a sources override (any defined sources argument) and
\* an empty primary result the call issues exactly one further query,
\* without sources, after the primary one, and returns its non-empty result;
\* without an override there is no retry.
C8_RetryWhenSourcesSupplied ==
  \A c \in CallIds : RetryRule(c, calls[c].sources # None)

\* C8 amended: the same with "a sources override" read as a sources string
\* that is not empty; an absent or empty sources argument gives no retry.
C8_RetryWhenSourcesNotEmpty ==
  \A c \in CallIds :
    RetryRule(c, calls[c].sources # None /\ calls[c].sources # Some(<<>>))

\* a call with sources "|" got an empty primary result, retried without
\* sources and returned the retry's non-empty result
C8_Witness ==
  \E c \in CallIds :
    /\ calls[c].sources = Some(SrcPipe)
    /\ Len(calls[c].queries) = 2
    /\ PromiseOf(<<c, 1>>).value = <<>>
    /\ QueryOf(<<c, 2>>).found = "miss"
    /\ calls[c].pc = "returned"
    /\ calls[c].result # <<>>
    /\ calls[c].result = PromiseOf(<<c, 2>>).value

\* C9: a call whose primary query failed issues no retry and fails with
\* that failure; a retry is only ever issued after an empty fulfilled
\* primary result; a call whose retry failed fails with the retry's failure.
C9_FailurePropagatedNotRetried ==
  \A c \in CallIds :
    LET call == calls[c]
        n == Len(call.queries)
    IN /\ (n >= 1 /\ PromiseOf(<<c, 1>>).inner = "threw")
            => /\ n = 1
               /\ call.pc \in {"awaitPrimary", "threw"}
               /\ call.pc = "threw" => call.error = PromiseOf(<<c, 1>>).error
       /\ n = 2 => (PromiseOf(<<c, 1>>).state = "fulfilled"
                     /\ PromiseOf(<<c, 1>>).value = <<>>)
       /\ (n = 2 /\ PromiseOf(<<c, 2>>).inner = "threw")
            => /\ call.pc \in {"awaitFallback", "threw"}
               /\ call.pc = "threw" => call.error = PromiseOf(<<c, 2>>).error

\* a call with onEmpty "empty" whose retry failed has failed with
\* the tool failure of the retry
C9_Witness ==
  \E c \in CallIds :
    /\ Len(calls[c].queries) = 2
    /\ calls[c].options.onEmpty = Some("empty")
    /\ PromiseOf(<<c, 2>>).state = "rejected"
    /\ calls[c].pc = "threw"
    /\ calls[c].error = PromiseOf(<<c, 2>>).error
    /\ calls[c].error.kind \in ToolFailures

\* every query the call issued was fulfilled with an empty sequence
AllQueriesEmpty(c) ==
  /\ Len(calls[c].queries) >= 1
  /\ \A i \in 1 .. Len(calls[c].queries) :
       /\ PromiseOf(<<c, i>>).state = "fulfilled"
       /\ PromiseOf(<<c, i>>).value = <<>>

\* C10: a finished call all of whose queries came back empty has the outcome
\* its onEmpty option fixes: [spec.name] for "keep" or no option, [] for
\* "empty", and for "error" an empty-expansion error naming the member.
C10_OnEmptyFixesOutcome ==
  \A c \in CallIds :
    (Finished(c) /\ AllQueriesEmpty(c))
      => LET call == calls[c]
         IN /\ call.options.onEmpty \in {None, Some("keep")}
                 => (call.pc = "returned" /\ call.result = <<call.spec.name>>)
            /\ call.options.onEmpty = Some("empty")
                 => (call.pc = "returned" /\ call.result = <<>>)
            /\ call.options.onEmpty = Some("error")
                 => /\ call.pc = "threw"
                    /\ call.error.kind = "empty"
                    /\ call.error.member = Some(call.spec.name)

\* a call with onEmpty "error" whose primary query and retry both came back
\* empty failed with the empty-expansion error for its member
C10_Witness ==
  \E c \in CallIds :
    /\ Len(calls[c].queries) = 2
    /\ QueryOf(<<c, 1>>).promise # QueryOf(<<c, 2>>).promise
    /\ AllQueriesEmpty(c)
    /\ calls[c].options.onEmpty = Some("error")
    /\ calls[c].pc = "threw"
    /\ calls[c].error = [kind |-> "empty", member |-> Some(calls[c].spec.name)]


\* ========================================================= resolveMembers
\* `spec.sources ?? sources`: the spec's own sources unless undefined
\* mutant: `spec.sources || sources`
FlattenSources_Or(spec, sources) ==
  IF Truthy(spec.sources) THEN spec.sources ELSE sources

FlattenSources(spec, sources) ==
  IF IsSome(spec.sources) THEN spec.sources ELSE sources

\* mutant: `return out`
ResolveOutput_Raw(out) == out

\* `return Array.from(new Set(out))`
ResolveOutput(out) == Deduplicated(out)

\* mutant: a failed member is skipped and the members collected are returned
ResolveThrow_Partial(res, call) ==
  [res EXCEPT !.pc = "returned", !.result = ResolveOutput(res.out),
              !.flattened = Append(res.flattened, call)]

\* `await flattenMemberWithBgpq4(...)` rejected: resolveMembers has no
\* handler, its promise is rejected with the same error
ResolveThrow(res, call) ==
  [res EXCEPT !.pc = "threw", !.error = call.error,
              !.flattened = Append(res.flattened, call)]

\* resolveMembers(specs, options, sources) up to its first await, called
\* for `document` (None when the caller has no document; otherwise the
\* caller is ASSetFromYamlAndFlatten, which awaits the promise returned).
\* Callers are numbered in the order of their calls.
ResolveCall(r, specs, options, sources, document) ==
  /\ resolves[r] = IdleResolve
  /\ \A d \in CallIds : d < r => resolves[d] # IdleResolve
  /\ LET res == [IdleResolve EXCEPT !.specs = specs, !.options = options,
                                    !.sources = sources,
                                    !.document = document,
                                    !.yaml = IF document = None THEN "none"
                                             ELSE "awaitResolve"]
     IN IF specs = <<>>
        THEN /\ resolves' = [resolves EXCEPT ![r] =
                               [res EXCEPT !.pc = "returned",
                                           !.result = ResolveOutput(<<>>)]]
             /\ UNCHANGED <<cache, promises, calls>>
        ELSE /\ resolves' = [resolves EXCEPT ![r] =
                               [res EXCEPT !.pc = "awaitFlatten", !.index = 1]]
             /\ FlattenCall(r, specs[1], options,
                            FlattenSources(specs[1], sources))

StartResolve(r, specs, options, sources) ==
  ResolveCall(r, specs, options, sources, None)

\* mutant: the loop goes on to the next spec without awaiting the flatten
\* call of the current one
ResumeResolve_NoAwait(r) ==
  LET res == resolves[r]
      next == res.index + 1
  IN /\ res.pc = "awaitFlatten"
     /\ res.index < Len(res.specs)
     /\ resolves' = [resolves EXCEPT ![r] =
                       [res EXCEPT !.index = next,
                                   !.flattened = Append(res.flattened, calls[r])]]
     /\ FlattenCall(r, res.specs[next], res.options,
                    FlattenSources(res.specs[next], res.sources))

\* resolveMembers resumed after `await flattenMemberWithBgpq4(...)`:
\* out.push(...resolved), then the next spec of the loop or the return
ResumeResolve(r) ==
  LET res == resolves[r]
      call == calls[r]
      out == res.out \o call.result
      next == res.index + 1
  IN /\ res.pc = "awaitFlatten"
     /\ call.pc \in {"returned", "threw"}
     /\ IF call.pc = "threw"
        THEN /\ resolves' = [resolves EXCEPT ![r] = ResolveThrow(res, call)]
             /\ UNCHANGED <<cache, promises, calls>>
        ELSE IF res.index = Len(res.specs)
        THEN /\ resolves' = [resolves EXCEPT ![r] =
                               [res EXCEPT !.pc = "returned", !.out = out,
                                  !.flattened = Append(res.flattened, call),
                                  !.result = ResolveOutput(out)]]
             /\ UNCHANGED <<cache, promises, calls>>
        ELSE /\ resolves' = [resolves EXCEPT ![r] =
                               [res EXCEPT !.index = next, !.out = out,
                                  !.flattened = Append(res.flattened, call)]]
             /\ FlattenCall(r, res.specs[next], res.options,
                            FlattenSources(res.specs[next], res.sources))

\* ------------------------------------------------ inputs of resolveMembers
NameFoo == <<"A", "S", "-", "F", "O", "O">>
NameBar == <<"A", "S", "-", "B", "A", "R">>
SrcARIN == <<"A", "R", "I", "N">>
SrcRADB == <<"R", "A", "D", "B">>

\* a MemberSpec as parseMemberSpecs builds it from a mapping entry
MemberSpecFrom(name, flat, depth, sources) ==
  [name |-> name, flat |-> flat, depth |-> depth, sources |-> sources]

\* AS-FOO, flat, at depth 1: without sources, with the sources RADB, and with
\* the empty sources string
SpecFoo == MemberSpecFrom(NameFoo, Some(TRUE), Some(1), None)
SpecFooRADB == MemberSpecFrom(NameFoo, Some(TRUE), Some(1), Some(SrcRADB))
SpecFooEmptySrc == MemberSpecFrom(NameFoo, Some(TRUE), Some(1), Some(SrcEmpty))
\* AS-BAR, not flat
SpecBar == MemberSpecFrom(NameBar, None, None, None)

ResolveRequest(specs, onEmpty, sources) ==
  [specs |-> specs, options |-> [onEmpty |-> onEmpty], sources |-> sources]

\* The calls made by the callers of resolveMembers: the empty list; AS-FOO
\* with its own sources RADB between two AS-BAR, under the default sources
\* ARIN; and AS-FOO with its own empty sources followed by AS-FOO without
\* sources, under the default sources RADB; the last two under the "error"
\* policy.
ResolveRequests ==
  { ResolveRequest(<<>>, None, None),
    ResolveRequest(<<SpecBar, SpecFooRADB, SpecBar>>, Some("error"),
                   Some(SrcARIN)),
    ResolveRequest(<<SpecFooEmptySrc, SpecFoo>>, Some("error"),
                   Some(SrcRADB)) }

ResolveBuckets == { <<>>, <<Some(100), Some(200)>> }

NextResolve ==
  \/ /\ \E r \in CallIds, q \in ResolveRequests :
          StartResolve(r, q.specs, q.options, q.sources)
     /\ UNCHANGED <<functionVars, clientVars>>
  \/ /\ \E r \in CallIds : ResumeResolve(r)
     /\ UNCHANGED <<functionVars, clientVars>>
  \/ /\ \E c \in CallIds : ResumePrimary(c)
     /\ UNCHANGED <<resolves, functionVars, clientVars>>
  \/ /\ \E c \in CallIds : ResumeFallback(c)
     /\ UNCHANGED <<resolves, functionVars, clientVars>>
  \/ /\ \E p \in PromiseIds, bucket \in ResolveBuckets : AdapterReturn(p, bucket)
     /\ UNCHANGED <<resolves, functionVars, clientVars>>
  \/ /\ \E p \in PromiseIds : CatchPassesValue(p)
     /\ UNCHANGED <<resolves, functionVars, clientVars>>
  \/ /\ \E p \in PromiseIds, kind \in Failures : AdapterThrow(p, kind)
     /\ UNCHANGED <<resolves, functionVars, clientVars>>
  \/ /\ \E p \in PromiseIds : CatchHandler(p)
     /\ UNCHANGED <<resolves, functionVars, clientVars>>

SpecResolve == Init /\ [][NextResolve]_vars


\* ------------------------------------------------- notions of the claims
SetOf(list) == { list[i] : i \in DOMAIN list }
NoDuplicates(list) ==
  \A i, j \in DOMAIN list : i # j => list[i] # list[j]
AS100 == <<"A", "S", "1", "0", "0">>
AS200 == <<"A", "S", "2", "0", "0">>

\* C11: when resolveMembers succeeds, flatten has been called once for each
\* spec of the list, in order, and each call returned; the output contains no
\* member twice and, as a set, is the union of what these flatten calls
\* returned.
C11_OutputIsDeduplicatedUnion ==
  \A r \in CallIds :
    resolves[r].pc = "returned" =>
      LET res == resolves[r]
      IN /\ Len(res.flattened) = Len(res.specs)
         /\ \A k \in DOMAIN res.specs :
              /\ res.flattened[k].spec = res.specs[k]
              /\ res.flattened[k].pc = "returned"
         /\ NoDuplicates(res.result)
         /\ SetOf(res.result) =
              UNION { SetOf(res.flattened[k].result) : k \in DOMAIN res.specs }

\* [AS-BAR, AS-FOO flat at depth 1, AS-BAR] has resolved to AS-BAR, AS100,
\* AS200: the output is shorter than what the flatten calls returned.
C11_Witness ==
  /\ \E r \in CallIds :
       /\ resolves[r].pc = "returned"
       /\ resolves[r].specs = <<SpecBar, SpecFooRADB, SpecBar>>
       /\ resolves[r].result = <<NameBar, AS100, AS200>>
  /\ \E r \in CallIds :
       /\ resolves[r].pc = "returned"
       /\ Len(resolves[r].result) < Len(resolves[r].out)


\* the queries issued by the flatten calls of all resolves, finished or not
ResolveMisses ==
  { <<r, k, i>> \in CallIds \X (1 .. 3) \X (1 .. 2) :
      /\ k <= resolves[r].index
      /\ LET call == IF k <= Len(resolves[r].flattened)
                     THEN resolves[r].flattened[k] ELSE calls[r]
         IN i <= Len(call.queries) /\ call.queries[i].found = "miss" }

\* C12: when the flatten call for the spec at position i raises, resolve
\* fails with that very error and returns no list; flatten has been called
\* for the positions 1..i only, every adapter invocation was started by one
\* of these calls, and from then on the resolve starts nothing more.
C12_FailFast ==
  /\ [](/\ \A r \in CallIds : \A k \in DOMAIN resolves[r].flattened :
            resolves[r].flattened[k].pc = "threw" =>
              /\ resolves[r].pc = "threw"
              /\ k = resolves[r].index
              /\ k = Len(resolves[r].flattened)
              /\ resolves[r].error = resolves[r].flattened[k].error
              /\ resolves[r].result = <<>>
              /\ calls[r] = resolves[r].flattened[k]
        /\ Len(promises) = Cardinality(ResolveMisses))
  /\ [][\A r \in CallIds :
          resolves[r].pc = "threw" =>
            (resolves'[r] = resolves[r] /\ calls'[r] = calls[r])]_vars

\* A resolve has failed at a position that is neither the first nor the
\* last of its list, after it had collected members.
C12_Witness ==
  \E r \in CallIds :
    /\ resolves[r].pc = "threw"
    /\ 1 < resolves[r].index
    /\ resolves[r].index < Len(resolves[r].specs)
    /\ resolves[r].out # <<>>


\* the flatten call a resolve made for the spec at position k
FlattenOf(r, k) ==
  IF k <= Len(resolves[r].flattened)
  THEN resolves[r].flattened[k] ELSE calls[r]

\* C13: resolve calls flatten for the spec at each position with that spec's
\* own sources when it has any, and with the default sources of the resolve
\* when the spec's sources is unset; the primary query of the flatten call
\* and its cache key carry these sources.
C13_OwnSourcesElseDefault ==
  \A r \in CallIds : \A k \in 1 .. resolves[r].index :
    LET res == resolves[r]
        spec == res.specs[k]
        call == FlattenOf(r, k)
        expected == IF spec.sources = None THEN res.sources ELSE spec.sources
    IN /\ call.spec = spec
       /\ call.sources = expected
       /\ call.queries # <<>> =>
            /\ call.queries[1].sourcesArg = expected
            /\ promises[call.queries[1].promise].key = cacheKey(spec, expected)
            /\ call.queries[1].found = "miss" =>
                 promises[call.queries[1].promise].sourcesArg = expected

\* Under the default sources RADB, one resolve has queried AS-FOO, which has
\* no sources of its own, with RADB, and has queried AS-FOO with its own
\* empty sources string with that empty string.
C13_Witness ==
  \E r \in CallIds :
    /\ resolves[r].sources = Some(SrcRADB)
    /\ resolves[r].index = 2
    /\ resolves[r].specs = <<SpecFooEmptySrc, SpecFoo>>
    /\ FlattenOf(r, 1).queries[1].sourcesArg = Some(SrcEmpty)
    /\ FlattenOf(r, 2).queries # <<>>
    /\ FlattenOf(r, 2).queries[1].sourcesArg = Some(SrcRADB)
    /\ promises[FlattenOf(r, 2).queries[1].promise].key
         = NameFoo \o <<"|", "1", "|">> \o SrcRADB


\* C14: every finished resolve has either returned its member set, every
\* spec of the list flattened, or failed with one error, raised by the
\* flatten call of the failing member, and that error names this member;
\* whether the failure is one of the tool or the empty-expansion error.
C14_ErrorIdentifiesFailingMember ==
  \A r \in CallIds :
    LET res == resolves[r]
    IN /\ res.pc = "returned" =>
            (res.error = NoError /\ Len(res.flattened) = Len(res.specs))
       /\ res.pc = "threw" =>
            /\ res.result = <<>>
            /\ res.error = res.flattened[res.index].error
            /\ res.error.kind \in ToolFailures \cup {"empty"}
            /\ res.error.member = Some(res.specs[res.index].name)


\* ======================================================= parseMemberSpecs
\* --------------------------------------------------------- bound of a list
MaxItems == 2

\* --------------------------------------------------------------- JS values
\* A value of the parsed YAML document: `tag` says which kind it is, and one
\* of the other fields holds it.  The items of an array are values, the
\* items of an object are its entries [key, value] in Object.entries order.
JsValue(tag, str, num, bool, items) ==
  [tag |-> tag, str |-> str, num |-> num, bool |-> bool, items |-> items]
JsUndefined == JsValue("undefined", <<>>, 0, FALSE, <<>>)
JsNull == JsValue("null", <<>>, 0, FALSE, <<>>)
JsString(s) == JsValue("string", s, 0, FALSE, <<>>)
JsNumber(n) == JsValue("number", <<>>, n, FALSE, <<>>)
JsBoolean(b) == JsValue("boolean", <<>>, 0, b, <<>>)
JsArray(items) == JsValue("array", <<>>, 0, FALSE, items)
JsObject(entries) == JsValue("object", <<>>, 0, FALSE, entries)
Entry(key, value) == [key |-> key, value |-> value]

\* typeof value
TypeOf(v) == IF v.tag \in {"null", "array", "object"} THEN "object" ELSE v.tag
\* Array.isArray(value)
IsArray(v) == v.tag = "array"
\* !!value
ToBoolean(v) ==
  CASE v.tag \in {"undefined", "null"} -> FALSE
    [] v.tag = "string" -> v.str # <<>>
    [] v.tag = "number" -> v.num # 0
    [] v.tag = "boolean" -> v.bool
    [] OTHER -> TRUE
\* !!value && typeof value === "object" && !Array.isArray(value)
isRecord(v) == ToBoolean(v) /\ TypeOf(v) = "object" /\ ~IsArray(v)
\* record[key] of an object: undefined when the object has no such key
Property(v, key) ==
  LET at == { i \in DOMAIN v.items : v.items[i].key = key }
  IN IF at = {} THEN JsUndefined ELSE v.items[CHOOSE i \in at : TRUE].value

KeyFlat == <<"f", "l", "a", "t">>
KeyDepth == <<"d", "e", "p", "t", "h">>
KeySource == <<"s", "o", "u", "r", "c", "e">>
reservedKeys == { KeyFlat, KeyDepth, KeySource }

\* mutant: any value present is taken, as a boolean
FlatOr_Present(v, default) ==
  IF v.tag # "undefined" THEN Some(ToBoolean(v)) ELSE default

\* typeof x.flat === "boolean" ? x.flat : default
FlatOr(v, default) == IF TypeOf(v) = "boolean" THEN Some(v.bool) ELSE default
\* typeof x.depth === "number" ? x.depth : default
DepthOr(v, default) == IF TypeOf(v) = "number" THEN Some(v.num) ELSE default
\* typeof x.source === "string" ? x.source.trim() : default
SourcesOr(v, default) ==
  IF TypeOf(v) = "string" THEN Some(Trim(v.str)) ELSE default

\* the loop over Object.entries(record)
RECURSIVE ParseEntries(_, _, _, _)
ParseEntries(entries, commonFlat, commonDepth, commonSources) ==
  IF entries = <<>> THEN <<>>
  ELSE LET rawName == Head(entries).key
           cfg == Head(entries).value
           name == Trim(rawName)
           nested == ToBoolean(cfg) /\ TypeOf(cfg) = "object" /\ ~IsArray(cfg)
           flat == IF nested THEN FlatOr(Property(cfg, KeyFlat), commonFlat)
                   ELSE commonFlat
           depth == IF nested THEN DepthOr(Property(cfg, KeyDepth), commonDepth)
                    ELSE commonDepth
           sources == IF nested
                      THEN SourcesOr(Property(cfg, KeySource), commonSources)
                      ELSE commonSources
           rest == ParseEntries(Tail(entries), commonFlat, commonDepth,
                                commonSources)
       IN IF rawName \in reservedKeys THEN rest
          ELSE IF name = <<>> THEN rest
          ELSE <<MemberSpecFrom(name, flat, depth, sources)>> \o rest

\* mutant: a string element is taken as it is written
ParseItem_Untrimmed(item) ==
  IF TypeOf(item) = "string"
  THEN <<MemberSpecFrom(item.str, None, None, None)>>
  ELSE IF isRecord(item)
  THEN ParseEntries(item.items,
                    FlatOr(Property(item, KeyFlat), None),
                    DepthOr(Property(item, KeyDepth), None),
                    SourcesOr(Property(item, KeySource), None))
  ELSE <<>>

\* one turn of the loop over the member list: the specs pushed for the item
ParseItem(item) ==
  IF TypeOf(item) = "string"
  THEN IF Trim(item.str) # <<>>
       THEN <<MemberSpecFrom(Trim(item.str), None, None, None)>>
       ELSE <<>>
  ELSE IF isRecord(item)
  THEN ParseEntries(item.items,
                    FlatOr(Property(item, KeyFlat), None),
                    DepthOr(Property(item, KeyDepth), None),
                    SourcesOr(Property(item, KeySource), None))
  ELSE <<>>

RECURSIVE ParseItems(_)
ParseItems(items) ==
  IF items = <<>> THEN <<>>
  ELSE ParseItem(Head(items)) \o ParseItems(Tail(items))

parseMemberSpecs(value) ==
  IF ~IsArray(value) THEN <<>> ELSE ParseItems(value.items)


\* ---------------------------------------------- inputs of parseMemberSpecs
NameASA == <<"A", "S", "-", "A">>
NameASB == <<"A", "S", "-", "B">>
StrYes == <<"y", "e", "s">>
SrcARINPadded == <<"\t">> \o SrcARIN \o <<"\n">>
SrcRADBPadded == <<" ">> \o SrcRADB \o <<"\r", "\n">>

\* what stands under a member key: nothing; {}; {flat: true, depth: 2};
\* {flat: false, depth: -1, source: " RADB "}; and a config whose three
\* fields are present with values of another type
CfgExample ==
  JsObject(<<Entry(KeyFlat, JsBoolean(TRUE)), Entry(KeyDepth, JsNumber(2))>>)
CfgFull ==
  JsObject(<<Entry(KeyFlat, JsBoolean(FALSE)), Entry(KeyDepth, JsNumber(-1)),
             Entry(KeySource, JsString(SrcRADBPadded))>>)
CfgOtherTypes ==
  JsObject(<<Entry(KeyFlat, JsString(StrYes)), Entry(KeyDepth, JsString(<<"2">>)),
             Entry(KeySource, JsNumber(5))>>)
MemberConfigs == { JsNull, JsObject(<<>>), CfgExample, CfgFull, CfgOtherTypes }

\* the reserved top-level keys of a mapping: none; flat: true, depth: 0,
\* source: " ARIN "; and flat: "yes", depth: -1, source: null
SharedDefaults ==
  { <<>>,
    <<Entry(KeyFlat, JsBoolean(TRUE)), Entry(KeyDepth, JsNumber(0)),
      Entry(KeySource, JsString(SrcARINPadded))>>,
    <<Entry(KeyFlat, JsString(StrYes)), Entry(KeyDepth, JsNumber(-1)),
      Entry(KeySource, JsNull)>> }

\* a mapping with a blank key, a padded key, a reserved key written after
\* them, and a member whose config is a list
MappingOfSeveral ==
  JsObject(<<Entry(<<" ">>, CfgExample),
             Entry(<<" ">> \o NameASB \o <<" ">>, JsNull),
             Entry(KeyDepth, JsNumber(2)),
             Entry(NameASA, JsArray(<<>>))>>)

\* the elements of a member list: strings, values of another shape, and
\* mappings of one member AS-B under shared defaults
MemberItems ==
  { JsString(NameASA), JsString(<<" ">> \o NameASA \o <<" ">>), JsString(<<" ">>),
    JsNull, JsNumber(7), JsArray(<<JsString(NameASA)>>), MappingOfSeveral }
  \cup { JsObject(d \o <<Entry(NameASB, cfg)>>) :
           d \in SharedDefaults, cfg \in MemberConfigs }

\* the values parseMemberSpecs is applied to: member lists of at most
\* MaxItems elements, and two values that are no list
ParseInputs ==
  { JsArray(items) :
      items \in UNION { [1 .. n -> MemberItems] : n \in 0 .. MaxItems } }
  \cup { JsUndefined, JsString(NameASA) }

InitParse ==
  /\ cache = EmptyMap
  /\ promises = <<>>
  /\ calls = [c \in CallIds |-> IdleCall]
  /\ resolves = [r \in CallIds |-> IdleResolve]
  /\ input \in { Some(v) : v \in ParseInputs }
  /\ output = None
  /\ ClientConstructed

\* parseMemberSpecs(value) is called and returns
ParseCall ==
  /\ output = None
  /\ output' = Some(parseMemberSpecs(Val(input)))
  /\ UNCHANGED <<cache, promises, calls, resolves, input, clientVars>>

NextParse == ParseCall

SpecParse == InitParse /\ [][NextParse]_vars


\* ------------------------------------------------- notions of the claims
\* The named entries of a member list, in the order they are written: a
\* string element that is not blank, and each entry of a mapping element
\* whose key is not reserved and not blank, with its config and its mapping.
NamedEntriesOfItem(item) ==
  IF item.tag = "string"
  THEN IF Trim(item.str) # <<>>
       THEN <<[key |-> item.str, plain |-> TRUE, config |-> JsUndefined,
               mapping |-> JsObject(<<>>)]>>
       ELSE <<>>
  ELSE IF item.tag = "object"
  THEN LET named == SelectSeq(item.items,
                      LAMBDA e : e.key \notin reservedKeys /\ Trim(e.key) # <<>>)
       IN [i \in 1 .. Len(named) |->
             [key |-> named[i].key, plain |-> FALSE,
              config |-> named[i].value, mapping |-> item]]
  ELSE <<>>

RECURSIVE NamedEntriesOfItems(_)
NamedEntriesOfItems(items) ==
  IF items = <<>> THEN <<>>
  ELSE NamedEntriesOfItem(Head(items)) \o NamedEntriesOfItems(Tail(items))

NamedEntries(value) ==
  IF value.tag = "array" THEN NamedEntriesOfItems(value.items) ELSE <<>>

\* the config object of the member has the field / the field of a spec as
\* a value
Carries(config, key) ==
  config.tag = "object" /\ \E i \in DOMAIN config.items : config.items[i].key = key
FlatValue(spec) ==
  IF spec.flat = None THEN JsUndefined ELSE JsBoolean(spec.flat[1])
DepthValue(spec) ==
  IF spec.depth = None THEN JsUndefined ELSE JsNumber(spec.depth[1])
SourcesValue(spec) ==
  IF spec.sources = None THEN JsUndefined ELSE JsString(spec.sources[1])
\* the value of the field as the member config or else the mapping gives it
GivenValue(entry, key) ==
  IF Carries(entry.config, key) THEN Property(entry.config, key)
  ELSE Property(entry.mapping, key)
\* the same, counting only values of the type of the field
GivenTypedValue(entry, key, type) ==
  IF Carries(entry.config, key) /\ TypeOf(Property(entry.config, key)) = type
  THEN Property(entry.config, key)
  ELSE IF TypeOf(Property(entry.mapping, key)) = type
  THEN Property(entry.mapping, key)
  ELSE JsUndefined
Trimmed(v) == IF v.tag = "string" THEN JsString(Trim(v.str)) ELSE v

\* C15 as stated: the spec of each mapping member has, in each of flat,
\* depth and sources, the value its config object carries for the field
\* when it carries one, and otherwise the value under the reserved key of
\* the mapping, or none.
C15_PerMemberFieldWhenPresent ==
  output # None =>
    LET entries == NamedEntries(input[1])
        out == output[1]
    IN \A k \in DOMAIN entries :
         (~entries[k].plain) =>
           /\ k \in DOMAIN out
           /\ FlatValue(out[k]) = GivenValue(entries[k], KeyFlat)
           /\ DepthValue(out[k]) = GivenValue(entries[k], KeyDepth)
           /\ SourcesValue(out[k]) = GivenValue(entries[k], KeySource)

\* C15 amended: the spec of each mapping member has, in each of flat, depth
\* and sources, the value its config object carries for the field when that
\* value is a boolean, a number, a string respectively; otherwise the value
\* under the reserved key of the mapping when that has this type; otherwise
\* none.  A source string is taken trimmed.
C15_PerMemberFieldWhenTyped ==
  output # None =>
    LET entries == NamedEntries(input[1])
        out == output[1]
    IN \A k \in DOMAIN entries :
         (~entries[k].plain) =>
           /\ k \in DOMAIN out
           /\ FlatValue(out[k]) = GivenTypedValue(entries[k], KeyFlat, "boolean")
           /\ DepthValue(out[k]) = GivenTypedValue(entries[k], KeyDepth, "number")
           /\ SourcesValue(out[k]) =
                Trimmed(GivenTypedValue(entries[k], KeySource, "string"))

\* The mapping {flat: true, depth: 0, source: " ARIN ", AS-B: {flat: true,
\* depth: 2}} has been parsed: depth 2 of the member, sources ARIN of the
\* mapping.
C15_Witness ==
  /\ input = Some(JsArray(<<JsObject(
                <<Entry(KeyFlat, JsBoolean(TRUE)), Entry(KeyDepth, JsNumber(0)),
                  Entry(KeySource, JsString(SrcARINPadded)),
                  Entry(NameASB, CfgExample)>>)>>))
  /\ output = Some(<<MemberSpecFrom(NameASB, Some(TRUE), Some(2), Some(SrcARIN))>>)


\* the list ["AS-A", {"AS-B": {flat: true, depth: 2}}]
ExampleMembers ==
  JsArray(<<JsString(NameASA), JsObject(<<Entry(NameASB, CfgExample)>>)>>)
IsTrimmed(str) ==
  str # <<>> /\ Head(str) \notin Whitespace /\ str[Len(str)] \notin Whitespace

\* C16: parseMemberSpecs returns, for every input, a list with one spec per
\* named entry, in the order of the entries; the name of each spec is the
\* trimmed string or key of its entry, is not empty, and the key is not
\* one of flat, depth, source; a spec from a string has a name only; a value
\* that is no list gives the empty list; and
\* ["AS-A", {"AS-B": {flat: true, depth: 2}}] gives
\* [{name: AS-A}, {name: AS-B, flat: true, depth: 2}].
C16_OneSpecPerNamedEntry ==
  output # None =>
    LET entries == NamedEntries(input[1])
        out == output[1]
    IN /\ Len(out) = Len(entries)
       /\ \A k \in DOMAIN out :
            /\ k \in DOMAIN entries
            /\ out[k].name = Trim(entries[k].key)
            /\ IsTrimmed(out[k].name)
            /\ entries[k].plain \/ entries[k].key \notin reservedKeys
            /\ entries[k].plain =>
                 out[k] = MemberSpecFrom(out[k].name, None, None, None)
       /\ input[1].tag # "array" => out = <<>>
       /\ input[1] = ExampleMembers =>
            out = << MemberSpecFrom(NameASA, None, None, None),
                     MemberSpecFrom(NameASB, Some(TRUE), Some(2), None) >>

\* The example list has been parsed into its two specs.
C16_Witness ==
  /\ input = Some(ExampleMembers)
  /\ output = Some(<< MemberSpecFrom(NameASA, None, None, None),
                      MemberSpecFrom(NameASB, Some(TRUE), Some(2), None) >>)

\* C17: every spec parseMemberSpecs returns has no depth or a depth that is
\* a non-negative integer.
C17_DepthAbsentOrNonNegative ==
  output # None =>
    \A k \in DOMAIN output[1] :
      output[1][k].depth = None \/ output[1][k].depth[1] \in Nat


\* ============================== the arguments of the bgpq4 invocation
\* ------------------------------------------------------ bound of a depth
MaxDepth == 12

\* [A-Za-z0-9_]
ListNameChars ==
  { "A", "B", "C", "D", "E", "F", "G", "H", "I", "J", "K", "L", "M",
    "N", "O", "P", "Q", "R", "S", "T", "U", "V", "W", "X", "Y", "Z" }
  \cup { "a", "b", "c", "d", "e", "f", "g", "h", "i", "j", "k", "l", "m",
         "n", "o", "p", "q", "r", "s", "t", "u", "v", "w", "x", "y", "z" }
  \cup { Digits[i] : i \in DOMAIN Digits } \cup {"_"}

\* name.replace(/[^A-Za-z0-9_]/g, "_"), cut to 64 characters
sanitizeListName(name) ==
  LET sanitized == [i \in DOMAIN name |->
                      IF name[i] \in ListNameChars THEN name[i] ELSE "_"]
  IN IF Len(sanitized) > 64 THEN SubSeq(sanitized, 1, 64) ELSE sanitized

DEFAULT_BGPQ4_HOST ==
  <<"w", "h", "o", "i", "s", ".", "r", "a", "d", "b", ".", "n", "e", "t">>

\* mutant: `if (sourcesArg)`
SourcesFlag_Untrimmed(sourcesArg) ==
  IF Truthy(sourcesArg) THEN << <<"-", "S">>, Trim(Val(sourcesArg)) >> ELSE <<>>

\* if (sourcesArg && sourcesArg.trim().length > 0) args.push("-S", ...)
SourcesFlag(sourcesArg) ==
  IF Truthy(sourcesArg) /\ Len(Trim(Val(sourcesArg))) > 0
  THEN << <<"-", "S">>, Trim(Val(sourcesArg)) >> ELSE <<>>

\* if (typeof spec.depth === "number" && spec.depth >= 0) args.push("-L", ...)
DepthFlag(spec) ==
  IF IsSome(spec.depth) /\ Val(spec.depth) >= 0
  THEN << <<"-", "L">>, NumberToString(Val(spec.depth)) >> ELSE <<>>

\* the argument list queryBgpq4ExpandedASNs hands to execFile
Bgpq4Args(spec, sourcesArg) ==
  << <<"-", "j">>, <<"-", "t">>, <<"-", "h">>, DEFAULT_BGPQ4_HOST,
     <<"-", "l">>, sanitizeListName(spec.name) >>
  \o SourcesFlag(sourcesArg) \o DepthFlag(spec) \o <<spec.name>>

\* The invocations: AS-FOO and "A|1", at no depth and at the depths from -2
\* to MaxDepth, with no sources, an empty, a blank, a plain and a padded
\* sources string.
ArgsInputs ==
  { [spec |-> MemberSpecFrom(name, Some(TRUE), depth, None), sourcesArg |-> src] :
      name \in {NameFoo, NameAPipe1},
      depth \in {None} \cup { Some(d) : d \in -2 .. MaxDepth },
      src \in {None, Some(SrcEmpty), Some(SrcBlank), Some(SrcARIN),
               Some(SrcARINPadded), Some(SrcPipe)} }

InitArgs ==
  /\ cache = EmptyMap
  /\ promises = <<>>
  /\ calls = [c \in CallIds |-> IdleCall]
  /\ resolves = [r \in CallIds |-> IdleResolve]
  /\ input \in { Some(i) : i \in ArgsInputs }
  /\ output = None
  /\ ClientConstructed

\* queryBgpq4ExpandedASNs builds the argument list
ArgsCall ==
  /\ output = None
  /\ output' = Some(Bgpq4Args(Val(input).spec, Val(input).sourcesArg))
  /\ UNCHANGED <<cache, promises, calls, resolves, input, clientVars>>

NextArgs == ArgsCall

SpecArgs == InitArgs /\ [][NextArgs]_vars

\* the flag stands in the argument list, before the last argument
FlagAt(args, flag) == { i \in 7 .. (Len(args) - 1) : args[i] = flag }

\* C19: the argument list has -S, followed by the trimmed sources, exactly
\* when a sources string is supplied that is not empty after trimming; it
\* has -L, followed by the depth, exactly when the depth of the spec is a
\* number >= 0; and its last argument is the member name.
C19_FlagsAndMemberLast ==
  output # None =>
    LET args == output[1]
        spec == input[1].spec
        src == input[1].sourcesArg
        hasSources == src # None /\ Trim(src[1]) # <<>>
        hasDepth == spec.depth # None /\ spec.depth[1] >= 0
    IN /\ (FlagAt(args, <<"-", "S">>) # {}) <=> hasSources
       /\ \A i \in FlagAt(args, <<"-", "S">>) : args[i + 1] = Trim(src[1])
       /\ (FlagAt(args, <<"-", "L">>) # {}) <=> hasDepth
       /\ \A i \in FlagAt(args, <<"-", "L">>) :
            args[i + 1] = NumberToString(spec.depth[1])
       /\ Cardinality(FlagAt(args, <<"-", "S">>)) <= 1
       /\ Cardinality(FlagAt(args, <<"-", "L">>)) <= 1
       /\ args[Len(args)] = spec.name

\* AS-FOO at depth 12 with the sources " ARIN " has been asked for with
\* -S ARIN -L 12 AS-FOO.
C19_Witness ==
  /\ input = Some([spec |-> MemberSpecFrom(NameFoo, Some(TRUE), Some(12), None),
                   sourcesArg |-> Some(SrcARINPadded)])
  /\ output # None
  /\ SubSeq(output[1], 6, Len(output[1]))
       = << <<"A", "S", "_", "F", "O", "O">>, <<"-", "S">>, SrcARIN,
            <<"-", "L">>, <<"1", "2">>, NameFoo >>


\* ================================================ registry client ARINIRM
\* Names, handles, contents, paths and API keys are sequences of characters;
\* the members of the enums, the roots of a response and the error messages
\* are strings.

\* encodeURIComponent, for the characters of the model: letters, digits and
\* - _ . ! ~ * ' ( ) stay; a tab, a blank, a slash and a bar are escaped
encodeURIComponent(str) ==
  LET Encoded(ch) ==
        CASE ch \in ListNameChars \cup {"-", ".", "!", "~", "*", "'", "(", ")"}
               -> <<ch>>
          [] ch = "\t" -> <<"%", "0", "9">>
          [] ch = " " -> <<"%", "2", "0">>
          [] ch = "/" -> <<"%", "2", "F">>
          [] ch = "|" -> <<"%", "7", "C">>
      F[i \in 0 .. Len(str)] ==
        IF i = 0 THEN <<>> ELSE F[i - 1] \o Encoded(str[i])
  IN F[Len(str)]

\* `!X || X.trim().length === 0`
Missing(option) == ~Truthy(option) \/ Len(Trim(Val(option))) = 0

PathAsSet == <<"i", "r", "r", "/", "a", "s", "-", "s", "e", "t">>
PathOrg == <<"o", "r", "g", "/">>
PathAsSets == <<"/", "a", "s", "-", "s", "e", "t", "s">>
ParamApikey == <<"a", "p", "i", "k", "e", "y">>
ParamOrgHandle == <<"o", "r", "g", "H", "a", "n", "d", "l", "e">>

\* this.task = { objectAction }
NewTask(action) ==
  [objectAction |-> action, objectType |-> None, objectMethod |-> None,
   object |-> None, objectValue |-> None]

\* the argument check of the case of the action: the message of the error
\* thrown, "" when none is
RequiredArgument(action, options) ==
  CASE action = "view" ->
         IF Missing(options.ASSetName)
         THEN "ASSetName is required for viewing AS-Set" ELSE ""
    [] action = "list" ->
         IF Missing(options.OrgHandle)
         THEN "OrgHandle is required for listing AS-Sets" ELSE ""
    [] action = "create" ->
         IF Missing(options.ASSetContent)
         THEN "ASSetContent is required for creating AS-Set"
         ELSE IF Missing(options.OrgHandle)
         THEN "OrgHandle is required for creating AS-Set" ELSE ""
    [] action = "modify" ->
         IF Missing(options.ASSetContent)
         THEN "ASSetContent is required for modifying AS-Set"
         ELSE IF Missing(options.ASSetName)
         THEN "ASSetName is required for modifying AS-Set" ELSE ""
    [] action = "delete" ->
         IF Missing(options.ASSetName)
         THEN "ASSetName is required for deleting AS-Set" ELSE ""

\* the task after the assignments of the case of the action
PreparedTask(t, options) ==
  LET asSetPath == PathAsSet \o <<"/">>
                     \o encodeURIComponent(Val(options.ASSetName))
      Object(path, params) == Some([path |-> path, searchParams |-> params])
  IN CASE t.objectAction = "view" ->
            [t EXCEPT !.objectMethod = Some("GET"),
                      !.object = Object(asSetPath, <<>>)]
       [] t.objectAction = "list" ->
            [t EXCEPT !.objectMethod = Some("GET"),
                      !.object = Object(PathOrg
                                   \o encodeURIComponent(Val(options.OrgHandle))
                                   \o PathAsSets, <<>>)]
       [] t.objectAction = "create" ->
            [t EXCEPT !.objectMethod = Some("POST"),
                      !.object = Object(PathAsSet,
                                   << <<ParamOrgHandle, Val(options.OrgHandle)>> >>),
                      !.objectValue = options.ASSetContent]
       [] t.objectAction = "modify" ->
            [t EXCEPT !.objectMethod = Some("PUT"),
                      !.object = Object(asSetPath, <<>>),
                      !.objectValue = options.ASSetContent]
       [] t.objectAction = "delete" ->
            [t EXCEPT !.objectMethod = Some("DELETE"),
                      !.object = Object(asSetPath, <<>>)]

\* new URL(path, this.URL): the path under the base URL after the URL parser
\* has dealt with the segments "." and "..".  The path is cut into its
\* segments at "/"; a segment "." is dropped and a segment ".." takes the
\* segment before it away, and when either is the last segment the path
\* ends with "/"; the segments left are joined by "/".  The paths of as_set
\* hold one such segment at most, after a segment of their own.
ResolvedPath(path) ==
  LET Dot == <<".">>
      DotDot == <<".", ".">>
      Extended(segments, ch) ==
        IF ch = "/" THEN Append(segments, <<>>)
        ELSE [segments EXCEPT ![Len(segments)] = @ \o <<ch>>]
      Segments[i \in 0 .. Len(path)] ==
        IF i = 0 THEN << <<>> >> ELSE Extended(Segments[i - 1], path[i])
      segments == Segments[Len(path)]
      Resolved(before, segment, last) ==
        LET kept == IF segment = DotDot /\ before # <<>>
                    THEN SubSeq(before, 1, Len(before) - 1) ELSE before
        IN IF segment \in {Dot, DotDot}
           THEN IF last THEN Append(kept, <<>>) ELSE kept
           ELSE Append(kept, segment)
      Kept[i \in 0 .. Len(segments)] ==
        IF i = 0 THEN <<>>
        ELSE Resolved(Kept[i - 1], segments[i], i = Len(segments))
      kept == Kept[Len(segments)]
      Joined[i \in 0 .. Len(kept)] ==
        IF i = 0 THEN <<>>
        ELSE IF i = 1 THEN kept[1]
        ELSE Joined[i - 1] \o <<"/">> \o kept[i]
  IN Joined[Len(kept)]

\* the request executeTask hands to axios: the method, the path under the
\* base URL, the search parameters appended, and the data of a POST or PUT
HttpRequest(t) ==
  [method |-> Val(t.objectMethod),
   path |-> ResolvedPath(Val(t.object).path),
   searchParams |-> << <<ParamApikey, apiKey>> >> \o Val(t.object).searchParams,
   data |-> IF Val(t.objectMethod) \in {"POST", "PUT"}
            THEN Some(IF IsSome(t.objectValue) THEN Val(t.objectValue) ELSE <<>>)
            ELSE None]

\* mutant: every status below 400 counts as a success
isSuccess_Below400(status) == status >= 200 /\ status < 400

\* response.status >= 200 && response.status < 300
isSuccess(status) == status >= 200 /\ status < 300

\* what executeTask ended in
TaskResult(status, data) ==
  [state |-> "fulfilled", isSuccess |-> isSuccess(status), status |-> status,
   resultMessage |-> data, error |-> ""]
TaskFailure(message) ==
  [state |-> "rejected", isSuccess |-> FALSE, status |-> 0,
   resultMessage |-> [root |-> "", source |-> None, names |-> <<>>],
   error |-> message]


\* --------------------------------------------------- responses of ARIN
\* A response body: the root element of the XML; the <source> of an asSet
\* when it is a string, None when the asSet has no <source> or one that the
\* XML parser has not read as a string; and the names the body holds (of
\* the asSet, or of the asSetRef of a collection).
Body(root, source, names) == [root |-> root, source |-> source, names |-> names]
BodyAsSet == Body("asSet", Some("ARIN"), << <<" ">> \o NameASA \o <<" ">> >>)
BodyCollection == Body("collection", None, <<NameASA, <<" ">>, NameASB>>)
\* The responses the script gets from the registry: status and body.  The
\* statuses are those at the two ends of [200,300); the asSet received with
\* status 200 is one without <source> and one of RADB.
Response(status, data) == [status |-> status, data |-> data]
Responses ==
  { Response(299, BodyCollection),
    Response(199, BodyAsSet), Response(300, BodyCollection),
    Response(200, Body("asSet", None, <<NameASB>>)),
    Response(200, Body("asSet", Some("RADB"), <<NameASB>>)) }

\* ASSet.fromXML: the message of the error thrown, "" when none is
FromXMLError(data) ==
  IF data.root # "asSet" THEN "Invalid ARIN asSet XML: missing <asSet> root"
  ELSE IF IsSome(data.source) /\ Val(data.source) # "ARIN"
  THEN "Unexpected <source>"
  ELSE ""
\* the ASSet objects pushed onto answer, each given by its name
ParsedAsSet(data) == << Trim(data.names[1]) >>
ListedAsSets(data) ==
  LET names == [i \in DOMAIN data.names |-> Trim(data.names[i])]
  IN SelectSeq(names, LAMBDA n : n # <<>>)

\* ------------------------------------------------------------ the methods
\* view(), create(), delete(), modify(), list()
\* mutant: the method leaves a task that is pending in place
SelectedTask_KeepPending(action) ==
  IF task # None THEN task ELSE Some(NewTask(action))

\* this.task after view(), create(), delete(), modify() or list()
SelectedTask(action) == Some(NewTask(action))

SelectAction(action) ==
  /\ task' = SelectedTask(action)
  /\ UNCHANGED <<apiKey, asSetCalls>>

Thrown(call, message) == [call EXCEPT !.pc = "threw", !.error = message]

\* mutant: as_set leaves the check to executeTask
NoTaskMessage_OfExecuteTask == "No task defined"

\* if (!this.task) throw new Error(...)
NoTaskMessage == "You should specify action before object type"

\* as_set(options) up to its first suspension, when this.task is `pending`
\* at the call; `selected` is the action the caller has selected in the same
\* expression, "" when it has selected none.  as_set throws, or it calls
\* executeTask, which runs up to the await of axios or throws for the API
\* key; as_set then waits for executeTask.  Callers are numbered in the
\* order of their calls.
AsSetOn(c, options, pending, selected) ==
  LET call == [IdleAsSetCall EXCEPT !.options = options, !.selected = selected]
  IN /\ asSetCalls[c].pc = "idle"
     /\ \A d \in ClientCallIds : d < c => asSetCalls[d].pc # "idle"
     /\ UNCHANGED apiKey
     /\ IF pending = None
        THEN /\ asSetCalls' = [asSetCalls EXCEPT ![c] =
                  Thrown(call, NoTaskMessage)]
             /\ task' = pending
        ELSE LET t == [Val(pending) EXCEPT !.objectType = Some("as-set")]
                 entered == [call EXCEPT !.action = t.objectAction]
                 message == RequiredArgument(t.objectAction, options)
             IN IF message # ""
                THEN /\ asSetCalls' = [asSetCalls EXCEPT ![c] =
                                         Thrown(entered, message)]
                     /\ task' = Some(t)
                ELSE /\ task' = Some(PreparedTask(t, options))
                     /\ asSetCalls' = [asSetCalls EXCEPT ![c] =
                          IF Missing(Some(apiKey))
                          THEN [entered EXCEPT
                                  !.pc = "awaitExecute",
                                  !.executed =
                                     Some(TaskFailure("API key is required"))]
                          ELSE [entered EXCEPT
                                  !.pc = "awaitAxios",
                                  !.request =
                                     Some(HttpRequest(PreparedTask(t, options)))]]

\* irm.as_set(options), on the task as it is
as_set(c, options) == AsSetOn(c, options, task, "")

\* irm.view().as_set(options), and the same with the other four methods,
\* when the evaluation of `options` returns: the method, the argument and
\* as_set run one after the other without suspension
ActionThenAsSet(c, action, options) ==
  AsSetOn(c, options, SelectedTask(action), action)

\* as_set after `await this.executeTask()`, in the case of its action
AfterExecute(call) ==
  LET result == Val(call.executed)
      data == result.resultMessage
  IN IF result.state = "rejected" THEN Thrown(call, result.error)
     ELSE IF ~result.isSuccess
     THEN Thrown(call, CASE call.action = "view" -> "Failed to view ASSet"
                         [] call.action = "list" -> "Failed to list ASSets"
                         [] call.action = "create" -> "Failed to create ASSet"
                         [] call.action = "modify" -> "Failed to modify ASSet"
                         [] call.action = "delete" -> "Failed to delete ASSet")
     ELSE IF call.action = "delete" THEN [call EXCEPT !.pc = "returned"]
     ELSE IF call.action = "list"
     THEN IF data.root # "collection"
          THEN Thrown(call, "Invalid ARIN list response: missing <collection> root")
          ELSE [call EXCEPT !.pc = "returned", !.answer = ListedAsSets(data)]
     ELSE IF FromXMLError(data) # "" THEN Thrown(call, FromXMLError(data))
     ELSE [call EXCEPT !.pc = "returned", !.answer = ParsedAsSet(data)]

\* The response has arrived, whatever its status (validateStatus accepts
\* every status): executeTask is resumed after `await axios...`, resets the
\* task and returns.  as_set is resumed in a later job.
AxiosRespond(c, status, data) ==
  /\ asSetCalls[c].pc = "awaitAxios"
  /\ task' = None
  /\ asSetCalls' = [asSetCalls EXCEPT
                      ![c].pc = "awaitExecute",
                      ![c].executed = Some(TaskResult(status, data))]
  /\ UNCHANGED apiKey

\* axios has thrown (no response): executeTask is resumed in its catch
\* block, resets the task and throws
AxiosThrow(c) ==
  /\ asSetCalls[c].pc = "awaitAxios"
  /\ task' = None
  /\ asSetCalls' = [asSetCalls EXCEPT
                      ![c].pc = "awaitExecute",
                      ![c].executed = Some(TaskFailure("Failed to execute task"))]
  /\ UNCHANGED apiKey

\* as_set is resumed after `await this.executeTask()`, which has returned
\* or thrown
AsSetResumed(c) ==
  /\ asSetCalls[c].pc = "awaitExecute"
  /\ asSetCalls' = [asSetCalls EXCEPT ![c] = AfterExecute(asSetCalls[c])]
  /\ UNCHANGED <<task, apiKey>>

\* ---------------------------------------------------- inputs of the client
Actions == { "view", "create", "delete", "modify", "list" }
OrgHandleORG == <<"O", "R", "G">>
ContentXml == <<"<", "x", "/", ">">>
ARIASSetOptions(name, org, content) ==
  [ASSetName |-> name, OrgHandle |-> org, ASSetContent |-> content]
\* the arguments of as_set: a blank name alone; and a name with a leading
\* blank, a handle and a content
ClientOptions ==
  { ARIASSetOptions(Some(SrcBlank), None, None),
    ARIASSetOptions(Some(<<" ">> \o NameASA), Some(OrgHandleORG),
                    Some(ContentXml)) }
ApiKeys == { <<>>, <<"K">> }

InitClient ==
  /\ cache = EmptyMap
  /\ promises = <<>>
  /\ calls = [c \in CallIds |-> IdleCall]
  /\ resolves = [r \in CallIds |-> IdleResolve]
  /\ input = None
  /\ output = None
  /\ task = None
  /\ apiKey \in ApiKeys
  /\ asSetCalls = [c \in ClientCallIds |-> IdleAsSetCall]

\* A caller selects an action and calls as_set in steps of their own, with
\* the arguments above or with the handle ".." alone; the registry answers
\* with the asSet of ARIN, or axios throws.
NextClient ==
  \/ /\ \E action \in Actions : SelectAction(action)
     /\ UNCHANGED <<cache, promises, calls, resolves, functionVars>>
  \/ /\ \E c \in ClientCallIds :
          \E options \in ClientOptions
                \cup { ARIASSetOptions(None, Some(<<".", ".">>), None) } :
            as_set(c, options)
     /\ UNCHANGED <<cache, promises, calls, resolves, functionVars>>
  \/ /\ \E c \in ClientCallIds : AxiosRespond(c, 200, BodyAsSet)
     /\ UNCHANGED <<cache, promises, calls, resolves, functionVars>>
  \/ /\ \E c \in ClientCallIds : AxiosThrow(c)
     /\ UNCHANGED <<cache, promises, calls, resolves, functionVars>>
  \/ /\ \E c \in ClientCallIds : AsSetResumed(c)
     /\ UNCHANGED <<cache, promises, calls, resolves, functionVars>>

SpecClient == InitClient /\ [][NextClient]_vars

\* `irm.modify().as_set({..., ASSetContent: asSetObj.toXML()})` when toXML
\* throws, as it does for a local object without name or organisation
\* handle: the argument is evaluated after modify() has replaced the task,
\* as_set is not called and the callback ends with the error
ModifyArgumentThrows == SelectAction("modify")

\* The synchronisation script: every call is written action().as_set(...),
\* and the callbacks of its forEach share one client, so that a call is
\* made while the requests of earlier ones are in flight.
NextSync ==
  \/ /\ \E c \in ClientCallIds, action \in Actions, options \in ClientOptions :
          ActionThenAsSet(c, action, options)
     /\ UNCHANGED <<cache, promises, calls, resolves, functionVars>>
  \/ /\ ModifyArgumentThrows
     /\ UNCHANGED <<cache, promises, calls, resolves, functionVars>>
  \/ /\ \E c \in ClientCallIds, response \in Responses :
          AxiosRespond(c, response.status, response.data)
     /\ UNCHANGED <<cache, promises, calls, resolves, functionVars>>
  \/ /\ \E c \in ClientCallIds : AxiosThrow(c)
     /\ UNCHANGED <<cache, promises, calls, resolves, functionVars>>
  \/ /\ \E c \in ClientCallIds : AsSetResumed(c)
     /\ UNCHANGED <<cache, promises, calls, resolves, functionVars>>

SpecSync == InitClient /\ [][NextSync]_vars


\* ------------------------------------------------- notions of the claims
FailedMessages ==
  { "Failed to view ASSet", "Failed to list ASSets", "Failed to create ASSet",
    "Failed to modify ASSet", "Failed to delete ASSet" }
\* the call has got a response with this status
Responded(c) ==
  /\ asSetCalls[c].executed # None
  /\ asSetCalls[c].executed[1].state = "fulfilled"
StatusOf(c) == asSetCalls[c].executed[1].status

\* C18: an as_set call that returns has got a response whose status is in
\* [200,300); a call whose response has another status holds no AS-SET
\* object and, once resumed, has failed with the "Failed to ..." error of
\* its action; and a call whose response has a status in [200,300) is not
\* failed for its status.
C18_SuccessIffStatus2xx ==
  \A c \in ClientCallIds :
    LET call == asSetCalls[c]
    IN /\ call.pc = "returned" =>
            (Responded(c) /\ StatusOf(c) >= 200 /\ StatusOf(c) < 300)
       /\ (Responded(c) /\ ~(StatusOf(c) >= 200 /\ StatusOf(c) < 300)) =>
            /\ call.pc \in {"awaitExecute", "threw"}
            /\ call.pc = "threw" => call.error \in FailedMessages
            /\ call.answer = <<>>
       /\ (Responded(c) /\ StatusOf(c) >= 200 /\ StatusOf(c) < 300) =>
            call.error \notin FailedMessages
       /\ call.pc # "returned" => call.answer = <<>>

\* One call has returned the two AS-SETs of a collection received with
\* status 299, and one call has failed on a response with status 300.
C18_Witness ==
  /\ \E c \in ClientCallIds :
       /\ asSetCalls[c].pc = "returned"
       /\ StatusOf(c) = 299
       /\ asSetCalls[c].answer = <<NameASA, NameASB>>
  /\ \E c \in ClientCallIds :
       /\ asSetCalls[c].pc = "threw"
       /\ Responded(c)
       /\ StatusOf(c) = 300

\* C20: an as_set call made while the task is null fails at once with "You
\* should specify action before object type", sends no HTTP request and
\* leaves the task null; a call that failed so never sends one.
C20_ActionBeforeAsSet ==
  /\ [](\A c \in ClientCallIds :
          asSetCalls[c].error = "You should specify action before object type"
            => (asSetCalls[c].pc = "threw" /\ asSetCalls[c].request = None))
  /\ [][\A c \in ClientCallIds :
          (asSetCalls[c].pc = "idle" /\ asSetCalls'[c].pc # "idle" /\ task = None)
            => /\ asSetCalls'[c].pc = "threw"
               /\ asSetCalls'[c].error
                    = "You should specify action before object type"
               /\ asSetCalls'[c].request = None
               /\ task' = None]_vars

\* The first call has returned and reset the task; the second call, made
\* without a new action, has failed with the message and sent no request.
C20_Witness ==
  /\ asSetCalls[1].pc = "returned"
  /\ asSetCalls[2].pc = "threw"
  /\ asSetCalls[2].error = "You should specify action before object type"
  /\ asSetCalls[2].request = None


\* ============================================ eviction, under Spec
\* C22: whenever an entry leaves the cache, it is the entry of a computation
\* that has failed and whose failure handler runs in that step, and no other
\* entry changes; and a computation is started for a key only after the
\* handler of every earlier computation of that key has run, so that a
\* handler never finds the entry of a later computation under its key.
C22_EvictionRemovesOwnEntryOnly ==
  /\ [](\A p, q \in PromiseIds :
          (p < q /\ promises[p].key = promises[q].key)
            => promises[p].state = "rejected")
  /\ [][\A k \in DOMAIN cache :
          IF k \in DOMAIN cache'
          THEN cache'[k] = cache[k]
          ELSE /\ promises[cache[k]].inner = "threw"
               /\ promises[cache[k]].state = "pending"
               /\ promises'[cache[k]].state = "rejected"]_vars

\* The first computation of a key has failed and its handler has run; a
\* second computation of the same key has been started since and has its
\* entry.
C22_Witness ==
  \E p, q \in PromiseIds :
    /\ p < q
    /\ promises[p].key = promises[q].key
    /\ promises[p].state = "rejected"
    /\ MapHas(cache, promises[q].key)
    /\ cache[promises[q].key] = q


\* ======================================== the pending task, under SpecClient
\* C24: the step that settles how an as_set call ends consumes the action:
\* when as_set throws during the call, and when executeTask ends, by its
\* return or by an error of any kind, no action is pending after the step.
C24_ActionConsumedByOneAsSet ==
  [][\A c \in ClientCallIds :
       (\/ asSetCalls[c].pc = "idle" /\ asSetCalls'[c].pc = "threw"
        \/ asSetCalls[c].executed = None /\ asSetCalls'[c].executed # None)
         => task' = None]_vars


\* ================================= calls in flight together, under SpecSync
\* the method, the path and the body the registry expects for an action
MethodOfAction(action) ==
  CASE action \in {"view", "list"} -> "GET"
    [] action = "create" -> "POST"
    [] action = "modify" -> "PUT"
    [] action = "delete" -> "DELETE"
PathOfAction(action, options) ==
  ResolvedPath(
    CASE action \in {"view", "modify", "delete"} ->
           <<"i", "r", "r", "/", "a", "s", "-", "s", "e", "t", "/">>
             \o encodeURIComponent(Val(options.ASSetName))
      [] action = "create" ->
           <<"i", "r", "r", "/", "a", "s", "-", "s", "e", "t">>
      [] action = "list" ->
           <<"o", "r", "g", "/">> \o encodeURIComponent(Val(options.OrgHandle))
             \o <<"/", "a", "s", "-", "s", "e", "t", "s">>)
BodyOfAction(action, options) ==
  IF action \in {"create", "modify"} THEN options.ASSetContent ELSE None

\* C23: the request a call sends has the method, the path and the body of
\* the action selected in that call and of its own arguments, whatever
\* other calls are in flight and whatever task an earlier statement has
\* left; and from then on no step changes the request, the action or the
\* arguments of the call, in whatever order the responses arrive: a step of
\* another call (its response or error, which resets the shared task)
\* leaves the call as it is, and a call that has sent a request changes by
\* its own response or error, and then by its own resumption.
C23_RequestOfOwnAction ==
  /\ [][\A c \in ClientCallIds :
          (asSetCalls[c].request = None /\ asSetCalls'[c].request # None) =>
            LET call == asSetCalls'[c]
                request == Val(call.request)
            IN /\ call.selected \in Actions
               /\ request.method = MethodOfAction(call.selected)
               /\ request.path = PathOfAction(call.selected, call.options)
               /\ request.data = BodyOfAction(call.selected, call.options)]_vars
  /\ [][\A c \in ClientCallIds :
          asSetCalls[c].request # None =>
            /\ asSetCalls'[c].request = asSetCalls[c].request
            /\ asSetCalls'[c].selected = asSetCalls[c].selected
            /\ asSetCalls'[c].options = asSetCalls[c].options
            /\ asSetCalls'[c] # asSetCalls[c] =>
                  \/ /\ asSetCalls[c].pc = "awaitAxios"
                     /\ asSetCalls[c].executed = None
                     /\ asSetCalls'[c].executed # None
                     /\ asSetCalls'[c].pc = "awaitExecute"
                  \/ /\ asSetCalls[c].pc = "awaitExecute"
                     /\ asSetCalls'[c].executed = asSetCalls[c].executed
                     /\ asSetCalls'[c].pc \in {"returned", "threw"}
                     /\ task' = task]_vars

\* a later call has got its response, which has reset the task, while the
\* request of an earlier call with another action is still in flight
C23_Witness ==
  /\ asSetCalls[1].pc = "awaitAxios"
  /\ asSetCalls[1].selected = "modify"
  /\ Val(asSetCalls[1].request).method = "PUT"
  /\ asSetCalls[2].selected = "view"
  /\ asSetCalls[2].pc = "returned"
  /\ Val(asSetCalls[2].request).method = "GET"
  /\ task = None


\* ================================================ ASSetFromYamlAndFlatten
\* The document is modelled from the value the YAML parser has returned.
KeyName == <<"n", "a", "m", "e">>
KeyMembers == <<"m", "e", "m", "b", "e", "r", "s">>

\* typeof y.name === "string" ? y.name.trim() : "", and the same for source
TrimmedString(v) == IF TypeOf(v) = "string" THEN Trim(v.str) ELSE <<>>

\* The error ASSetFromYamlObject throws for a value, "" when it returns.  The
\* third message goes on with the source in parentheses.
ASSetFromYamlObject(value) ==
  IF ~isRecord(value)
  THEN "Invalid ASSet YAML: root must be a mapping/object"
  ELSE IF TrimmedString(Property(value, KeyName)) = <<>>
  THEN "Invalid ASSet YAML: missing/empty 'name'"
  ELSE LET source == TrimmedString(Property(value, KeySource))
       IN IF source # <<>> /\ source # SrcARIN
          THEN "Invalid ASSet YAML: unsupported 'source'"
          ELSE ""

\* mutant: flattening does not require a source
SourceForFlattening_Optional(source) == ""

\* if (!source) throw ...: the error thrown for a source, "" when none is
SourceForFlattening(source) ==
  IF source = <<>>
  THEN "Invalid ASSet YAML: missing/empty 'source' for flattening"
  ELSE ""

\* the error ASSetFromYamlAndFlatten throws before it parses the members
YamlError(obj) ==
  IF ~isRecord(obj)
  THEN "Invalid ASSet YAML: root must be a mapping/object"
  ELSE IF ASSetFromYamlObject(obj) # ""
  THEN ASSetFromYamlObject(obj)
  ELSE SourceForFlattening(TrimmedString(Property(obj, KeySource)))

\* ASSetFromYamlAndFlatten(yamlText, options) for the parsed document obj, up
\* to its first await; the callers pass the default options, {}.  An error
\* thrown before the await rejects the call in this step, and resolveMembers
\* is not called; otherwise the call awaits the promise of resolveMembers,
\* also when resolveMembers has returned without suspension.
ASSetFromYamlAndFlatten(r, obj, options) ==
  IF YamlError(obj) # ""
  THEN /\ resolves[r] = IdleResolve
       /\ \A d \in CallIds : d < r => resolves[d] # IdleResolve
       /\ resolves' = [resolves EXCEPT ![r] =
            [IdleResolve EXCEPT !.yaml = "threw", !.options = options,
                                !.document = Some(obj),
                                !.error = [kind |-> YamlError(obj),
                                           member |-> None]]]
       /\ UNCHANGED <<cache, promises, calls>>
  ELSE ResolveCall(r, parseMemberSpecs(Property(obj, KeyMembers)), options,
                   Some(TrimmedString(Property(obj, KeySource))), Some(obj))

\* ASSetFromYamlAndFlatten resumed after `await resolveMembers(...)`, in a
\* job after the one in which resolveMembers has ended: `asSet.members = `
\* the list returned and `return asSet`, or the call is rejected with the
\* error of resolveMembers
YamlResumed(r) ==
  LET res == resolves[r]
  IN /\ res.yaml = "awaitResolve"
     /\ res.pc \in {"returned", "threw"}
     /\ resolves' = [resolves EXCEPT ![r] =
          IF res.pc = "returned"
          THEN [res EXCEPT !.yaml = "returned", !.members = res.result]
          ELSE [res EXCEPT !.yaml = "threw"]]
     /\ UNCHANGED <<cache, promises, calls>>

\* ------------------------------------------------------------ documents
\* members: [{AS-FOO: {flat: true, depth: 1}}, AS-BAR]
MembersFooBar ==
  JsArray(<<JsObject(<<Entry(NameFoo,
                             JsObject(<<Entry(KeyFlat, JsBoolean(TRUE)),
                                        Entry(KeyDepth, JsNumber(1))>>))>>),
            JsString(NameBar)>>)
Document(source) ==
  JsObject(<<Entry(KeyName, JsString(NameASA))>> \o source
             \o <<Entry(KeyMembers, MembersFooBar)>>)
\* the documents of the callers: one with the source " ARIN "; one with
\* the source ARIN and no members; three whose source is missing, blank or
\* not a string; one with another source; one without a name; and one that
\* is not a mapping
Documents ==
  { Document(<<Entry(KeySource, JsString(SrcARINPadded))>>),
    JsObject(<<Entry(KeyName, JsString(NameASA)),
               Entry(KeySource, JsString(SrcARIN))>>),
    Document(<<>>),
    Document(<<Entry(KeySource, JsString(SrcBlank))>>),
    Document(<<Entry(KeySource, JsNumber(1))>>),
    Document(<<Entry(KeySource, JsString(SrcRADB))>>),
    JsObject(<<Entry(KeySource, JsString(SrcARIN)),
               Entry(KeyMembers, MembersFooBar)>>),
    MembersFooBar }

NextYaml ==
  \/ /\ \E r \in CallIds, obj \in Documents :
          ASSetFromYamlAndFlatten(r, obj, [onEmpty |-> None])
     /\ UNCHANGED <<functionVars, clientVars>>
  \/ /\ \E r \in CallIds : ResumeResolve(r)
     /\ UNCHANGED <<functionVars, clientVars>>
  \/ /\ \E r \in CallIds : YamlResumed(r)
     /\ UNCHANGED <<functionVars, clientVars>>
  \/ /\ \E c \in CallIds : ResumePrimary(c)
     /\ UNCHANGED <<resolves, functionVars, clientVars>>
  \/ /\ \E c \in CallIds : ResumeFallback(c)
     /\ UNCHANGED <<resolves, functionVars, clientVars>>
  \/ /\ \E p \in PromiseIds, bucket \in ResolveBuckets : AdapterReturn(p, bucket)
     /\ UNCHANGED <<resolves, functionVars, clientVars>>
  \/ /\ \E p \in PromiseIds : CatchPassesValue(p)
     /\ UNCHANGED <<resolves, functionVars, clientVars>>
  \/ /\ \E p \in PromiseIds, kind \in Failures : AdapterThrow(p, kind)
     /\ UNCHANGED <<resolves, functionVars, clientVars>>
  \/ /\ \E p \in PromiseIds : CatchHandler(p)
     /\ UNCHANGED <<resolves, functionVars, clientVars>>

SpecYaml == Init /\ [][NextYaml]_vars

\* ------------------------------------------------- notions of the claim
\* the document has no source, or one that is not a string, or a blank one
SourceMissingOrEmpty(obj) ==
  \/ ~isRecord(obj)
  \/ Property(obj, KeySource).tag # "string"
  \/ \A i \in DOMAIN Property(obj, KeySource).str :
       Property(obj, KeySource).str[i] \in Whitespace

\* C21: a call for a document whose source is missing or empty ends with an
\* error in the step in which it is made, a step that does not call
\* resolveMembers, starts no flatten call and no adapter invocation and
\* leaves the cache as it is; and every call that has gone on to resolve
\* has passed "ARIN", the trimmed source of its document, as the default
\* sources.
C21_SourceRequiredAndARIN ==
  /\ [][\A r \in CallIds :
          (/\ resolves[r].yaml = "none"
           /\ resolves'[r].yaml # "none"
           /\ SourceMissingOrEmpty(Val(resolves'[r].document)))
            => /\ resolves'[r].yaml = "threw"
               /\ resolves'[r].error.kind # "none"
               /\ resolves'[r].pc = "idle"
               /\ calls' = calls
               /\ promises' = promises
               /\ cache' = cache]_vars
  /\ [](\A r \in CallIds :
          resolves[r].document # None =>
            /\ SourceMissingOrEmpty(Val(resolves[r].document))
                 => /\ calls[r].pc = "idle"
                    /\ resolves[r].pc = "idle"
                    /\ resolves[r].yaml = "threw"
            /\ resolves[r].pc # "idle" =>
                 /\ resolves[r].sources = Some(SrcARIN)
                 /\ Property(Val(resolves[r].document), KeySource)
                      \in {JsString(SrcARIN), JsString(SrcARINPadded)})

\* one call has failed for its missing source and started nothing, while
\* another has gone on with the sources ARIN and has an invocation in flight
C21_Witness ==
  /\ resolves[1].document = Some(Document(<<>>))
  /\ resolves[1].yaml = "threw"
  /\ resolves[1].pc = "idle"
  /\ resolves[1].error.kind
       = "Invalid ASSet YAML: missing/empty 'source' for flattening"
  /\ calls[1].pc = "idle"
  /\ resolves[2].document
       = Some(Document(<<Entry(KeySource, JsString(SrcARINPadded))>>))
  /\ resolves[2].sources = Some(SrcARIN)
  /\ calls[2].queries # <<>>
  /\ promises[calls[2].queries[1].promise].key
       = NameFoo \o <<"|", "1", "|">> \o SrcARIN


\* ============================== one spec at a time, under SpecResolve
\* the adapter invocations started by the flatten calls of resolve r that
\* have not ended: <<k, i>> is query i of the call for position k
OwnInFlight(r) ==
  { <<k, i>> \in (1 .. 3) \X (1 .. 2) :
      /\ k <= resolves[r].index
      /\ i <= Len(FlattenOf(r, k).queries)
      /\ FlattenOf(r, k).queries[i].found = "miss"
      /\ promises[FlattenOf(r, k).queries[i].promise].inner = "running" }

\* C25: a resolve at position i has called flatten for the specs 1..i in
\* the order of its list; the calls for the positions before i have ended,
\* and so has every adapter invocation they started; hence at most one
\* invocation started by the resolve is in flight, and it was started by
\* the flatten call of the current position.
C25_OneSpecAtATime ==
  \A r \in CallIds :
    LET res == resolves[r]
        own == OwnInFlight(r)
    IN res.pc # "idle" =>
         /\ res.index <= Len(res.specs)
         /\ Len(res.flattened)
              = IF res.pc = "awaitFlatten" THEN res.index - 1 ELSE res.index
         /\ \A k \in DOMAIN res.flattened :
              /\ res.flattened[k].pc \in {"returned", "threw"}
              /\ res.flattened[k].spec = res.specs[k]
         /\ res.pc = "awaitFlatten" => calls[r].spec = res.specs[res.index]
         /\ Cardinality(own) <= 1
         /\ \A q \in own : q[1] = res.index /\ res.pc = "awaitFlatten"

\* two resolves have each an invocation of their own in flight, for
\* distinct keys; one of them has started it at its second position
C25_Witness ==
  /\ resolves[1].specs = <<SpecBar, SpecFooRADB, SpecBar>>
  /\ OwnInFlight(1) = { <<2, 1>> }
  /\ OwnInFlight(2) = { <<1, 1>> }
  /\ promises[calls[1].queries[1].promise].key
       # promises[calls[2].queries[1].promise].key


\* ===================================================== termination
\* The calls of the termination check: the list of AS-BAR and of AS-FOO,
\* flat at depth 1 and without sources of its own, resolved under the default
\* sources ARIN.  Such a call starts two invocations at most, the primary
\* query and the retry: the promises are among 1 .. 2 * MaxCalls.
LiveRequests == { ResolveRequest(<<SpecBar, SpecFoo>>, None, Some(SrcARIN)) }

\* the steps the event loop and the external processes take by themselves
\* the resolve call c, or the flatten call it waits for, is resumed
CallResumed(c) ==
  \/ /\ ResumeResolve(c)
     /\ UNCHANGED <<functionVars, clientVars>>
  \/ /\ ResumePrimary(c)
     /\ UNCHANGED <<resolves, functionVars, clientVars>>
  \/ /\ ResumeFallback(c)
     /\ UNCHANGED <<resolves, functionVars, clientVars>>
\* the external process of invocation p ends, by exit or by the timeout
InvocationEnds(p) ==
  /\ p \in PromiseIds
  /\ \/ \E bucket \in ResolveBuckets : AdapterReturn(p, bucket)
     \/ \E kind \in Failures : AdapterThrow(p, kind)
  /\ UNCHANGED <<resolves, functionVars, clientVars>>
\* the promise derived by .catch settles
CachedSettles(p) ==
  /\ p \in PromiseIds
  /\ CatchPassesValue(p) \/ CatchHandler(p)
  /\ UNCHANGED <<resolves, functionVars, clientVars>>

NextLive ==
  \/ /\ \E r \in CallIds, q \in LiveRequests :
          StartResolve(r, q.specs, q.options, q.sources)
     /\ UNCHANGED <<functionVars, clientVars>>
  \/ \E c \in CallIds : CallResumed(c)
  \/ \E p \in 1 .. (2 * MaxCalls) : InvocationEnds(p)
  \/ \E p \in 1 .. (2 * MaxCalls) : CachedSettles(p)

\* Every external process ends; a continuation or handler whose promise
\* has settled is run by the event loop.  Callers are free to make no call.
Fairness ==
  /\ \A p \in 1 .. (2 * MaxCalls) :
       WF_vars(InvocationEnds(p)) /\ WF_vars(CachedSettles(p))
  /\ \A c \in CallIds : WF_vars(CallResumed(c))

SpecLive == Init /\ [][NextLive]_vars /\ Fairness

\* ------------------------------------------------- notions of the claim
\* promise p is the entry of its key
IsEntry(p) ==
  MapHas(cache, promises[p].key) /\ cache[promises[p].key] = p
\* flatten call c waits on a promise it found pending in the cache, whose
\* computation has failed
JoinedFailed(c) ==
  /\ calls[c].pc \in {"awaitPrimary", "awaitFallback"}
  /\ calls[c].queries[Len(calls[c].queries)].found = "pending"
  /\ promises[calls[c].awaiting].inner = "threw"
\* no entry of the cache is pending, and no flatten or resolve call waits
Quiescent ==
  /\ \A p \in PromiseIds : promises[p].state # "pending"
  /\ \A c \in CallIds :
       /\ calls[c].pc \notin {"awaitPrimary", "awaitFallback"}
       /\ resolves[c].pc # "awaitFlatten"

\* C26: under the fairness above, whatever is pending or waiting comes to
\* an end: time and again no entry is pending and no call waits.  The ends
\* are those of the claim: a pending entry becomes a resolved entry or
\* leaves the cache with its promise rejected; a waiting flatten call goes
\* on to its next query, returns or raises, and a waiting resolve call goes
\* on to its next spec, returns or raises; and a call that has joined a
\* computation which has failed raises.
C26_EveryCallEnds ==
  /\ []<>Quiescent
  /\ [][/\ \A p \in PromiseIds :
            (promises[p].state = "pending" /\ IsEntry(p)) =>
              \/ promises'[p].state = "pending" /\ IsEntry(p)'
              \/ promises'[p].state = "fulfilled" /\ IsEntry(p)'
              \/ promises'[p].state = "rejected" /\ ~IsEntry(p)'
        /\ \A c \in CallIds :
            /\ calls[c].pc \in {"awaitPrimary", "awaitFallback"} =>
                 calls'[c].pc \in
                   {"awaitPrimary", "awaitFallback", "returned", "threw"}
            /\ calls[c].pc = "awaitFallback" =>
                 calls'[c].pc # "awaitPrimary"
            /\ resolves[c].pc = "awaitFlatten" =>
                 resolves'[c].pc \in {"awaitFlatten", "returned", "threw"}
            /\ JoinedFailed(c) =>
                 (calls'[c] = calls[c] \/ calls'[c].pc = "threw")]_vars

\* a call has joined the computation of another, and that computation has
\* failed while both wait
C26_Witness ==
  /\ JoinedFailed(2)
  /\ calls[1].pc = "awaitPrimary"
  /\ calls[1].awaiting = calls[2].awaiting
  /\ calls[1].queries[1].found = "miss"
  /\ resolves[1].pc = "awaitFlatten"
  /\ resolves[2].pc = "awaitFlatten"

====
